---- MODULE Spec2Model ----
(***************************************************************************)
(* Verification model of LocalWhisper's persistent transcription server    *)
(* (scripts/transcribe.py): start-up (argument parsing, load_model,        *)
(* optional warm-up), the readiness announcement and the line-oriented     *)
(* serving loop of main().                                                 *)
(***************************************************************************)
EXTENDS Integers, Sequences, FiniteSets, TLC

(***************************************************************************)
(* Bounds of the model.                                                    *)
(***************************************************************************)
\* number of lines the client writes to the server's stdin in one run
MaxLines == 2

(***************************************************************************)
(* Program constants.                                                      *)
(***************************************************************************)
\* load_wav: the only accepted frame rate, channel count and sample width
SampleRate == 16000
Mono == 1
SampleWidth == 2

(***************************************************************************)
(* The model directory given with --model-dir.                             *)
(***************************************************************************)
\* the weights the architecture needs (Qwen3ASRModel.__init__): one
\* representative parameter of the audio tower and one of the text decoder
RequiredWeights == {"audio_tower.conv2d1.weight", "model.embed_tokens.weight"}

\* what the *.safetensors files hold for a required weight
WeightStatus == {"good", "missing", "badshape"}

Dir(exists, config, a, t, tokenizer) ==
    [exists |-> exists, config |-> config,
     weights |-> [k \in RequiredWeights |->
                    IF k = "audio_tower.conv2d1.weight" THEN a ELSE t],
     tokenizer |-> tokenizer]

\* the directories the runs start from
ModelDirs ==
    { Dir(FALSE, "missing", "missing", "missing", FALSE),   \* no such directory
      Dir(TRUE, "missing", "good", "good", TRUE),           \* no config.json
      Dir(TRUE, "malformed", "good", "good", TRUE),         \* config.json is not JSON
      Dir(TRUE, "ok", "good", "good", FALSE),               \* no tokenizer files
      Dir(TRUE, "ok", "missing", "missing", TRUE),          \* no *.safetensors file
      Dir(TRUE, "ok", "good", "missing", TRUE),             \* a weight is missing
      Dir(TRUE, "ok", "good", "badshape", TRUE),            \* a shape mismatches
      Dir(TRUE, "ok", "good", "good", TRUE) }               \* complete

(***************************************************************************)
(* WAV files on disk.                                                      *)
(***************************************************************************)
Paths == {"/nonexistent.wav", "/stereo.wav", "/8bit.wav", "/44k.wav", "/ok.wav"}

WavFile(path) ==
    CASE path = "/nonexistent.wav" ->
           [exists |-> FALSE, nchannels |-> 0, sampwidth |-> 0, framerate |-> 0]
      [] path = "/stereo.wav" ->
           [exists |-> TRUE, nchannels |-> 2, sampwidth |-> SampleWidth,
            framerate |-> SampleRate]
      [] path = "/8bit.wav" ->
           [exists |-> TRUE, nchannels |-> Mono, sampwidth |-> 1,
            framerate |-> SampleRate]
      [] path = "/44k.wav" ->
           [exists |-> TRUE, nchannels |-> Mono, sampwidth |-> SampleWidth,
            framerate |-> 44100]
      [] OTHER ->
           [exists |-> TRUE, nchannels |-> Mono, sampwidth |-> SampleWidth,
            framerate |-> SampleRate]

(***************************************************************************)
(* Input lines.  raw: what line.strip() leaves ("blank": nothing,          *)
(* "malformed": text json.loads rejects, "json": text it accepts).         *)
(* jtype: the Python type json.loads returns ("dict", "list", "scalar"     *)
(* for int/float/bool/None).  cmd, wav, language: the value under that     *)
(* key of a dict ("absent" when the key is missing); for a list, cmd is    *)
(* "item" when "cmd" is one of its items.                                  *)
(***************************************************************************)
Line(raw, jtype, cmd, wav, language) ==
    [raw |-> raw, jtype |-> jtype, cmd |-> cmd, wav |-> wav, language |-> language]

Obj(cmd, wav, language) == Line("json", "dict", cmd, wav, language)

BlankLine     == Line("blank", "none", "absent", "absent", "absent")
MalformedLine == Line("malformed", "none", "absent", "absent", "absent")
ScalarLine    == Line("json", "scalar", "absent", "absent", "absent")   \* 5, null, true
ListLine      == Line("json", "list", "absent", "absent", "absent")     \* []
ListCmdLine   == Line("json", "list", "item", "absent", "absent")       \* ["cmd"]
PingLine      == Obj("ping", "absent", "absent")
QuitLine      == Obj("quit", "absent", "absent")

Lines ==
    { BlankLine, MalformedLine, ScalarLine, ListLine, ListCmdLine,
      PingLine, QuitLine,
      Obj("ping", "/ok.wav", "absent"),        \* {"cmd": "ping", "wav": "/ok.wav"}
      Obj("other", "absent", "absent"),        \* {"cmd": "reload"}
      Obj("nonstring", "/ok.wav", "absent"),   \* {"cmd": 5, "wav": "/ok.wav"}
      Obj("absent", "absent", "absent"),       \* {}
      Obj("absent", "empty", "English"),       \* {"wav": "", "language": "English"}
      Obj("absent", "nonstring", "absent"),    \* {"wav": 5}
      Obj("absent", "/ok.wav", "nonstring") }  \* {"wav": "/ok.wav", "language": 5}
    \cup { Obj("absent", p, "absent") : p \in Paths }

NoLine == Line("none", "none", "absent", "absent", "absent")

(***************************************************************************)
(* Pure functions of the server.                                           *)
(***************************************************************************)
\* a call's outcome: it returns a value or raises an exception
Return(v) == [raised |-> FALSE, value |-> v]
Raise(e)  == [raised |-> TRUE, value |-> e]

\* json.loads(line): JSONDecodeError unless the text is JSON
json_loads(line) ==
    IF line.raw = "json" THEN Return(line) ELSE Raise("JSONDecodeError")

\* `"cmd" in request`: key lookup in a dict, item lookup in a list,
\* TypeError for int/float/bool/None
cmd_in(request) ==
    CASE request.jtype = "dict" -> Return(request.cmd # "absent")
      [] request.jtype = "list" -> Return(request.cmd # "absent")
      [] OTHER -> Raise("TypeError")

\* request["cmd"]: the value under the key; a list takes no string index
get_cmd(request) ==
    IF request.jtype = "dict" THEN Return(request.cmd) ELSE Raise("TypeError")

\* request.get(key): only a dict has .get
get_field(request, key) ==
    IF request.jtype = "dict"
    THEN Return(IF key = "wav" THEN request.wav ELSE request.language)
    ELSE Raise("AttributeError")

\* `not wav_path`: None and "" are falsy
falsy(wav) == wav \in {"absent", "empty"}

\* load_wav without its frame-rate assertion
load_wav_lax(path) ==
    IF path \notin Paths THEN Raise("AttributeError")
    ELSE LET wf == WavFile(path) IN
         CASE ~wf.exists -> Raise("FileNotFoundError")
           [] wf.nchannels # Mono -> Raise("Expected mono")
           [] wf.sampwidth # SampleWidth -> Raise("Expected 16-bit")
           [] OTHER -> Return(path)

\* load_wav(path): the samples of a mono 16-bit 16 kHz file, otherwise the
\* exception of wave.open or of the first failing assert
load_wav(path) ==
    IF path \notin Paths THEN Raise("AttributeError")
    ELSE LET wf == WavFile(path) IN
         CASE ~wf.exists -> Raise("FileNotFoundError")
           [] wf.nchannels # Mono -> Raise("Expected mono")
           [] wf.sampwidth # SampleWidth -> Raise("Expected 16-bit")
           [] wf.framerate # SampleRate -> Raise("Expected 16kHz")
           [] OTHER -> Return(path)

\* model.load_weights(weights, strict=False): a weight found in the files is
\* assigned without a shape check, a weight not found keeps the value the
\* constructor gave it
load_weights(weights) ==
    [k \in RequiredWeights |->
        CASE weights[k] = "good" -> "file"
          [] weights[k] = "badshape" -> "misshaped"
          [] OTHER -> "init"]

\* load_model(model_dir): model, tokenizer, feature extractor and config
load_model(dir) ==
    CASE ~dir.exists -> Raise("FileNotFoundError")
      [] dir.config = "missing" -> Raise("FileNotFoundError")
      [] dir.config = "malformed" -> Raise("JSONDecodeError")
      [] ~dir.tokenizer -> Raise("OSError")
      [] OTHER -> Return([params |-> load_weights(dir.weights),
                          tokenizer |-> "loaded",
                          feature_extractor |-> "loaded",
                          config |-> "loaded"])

\* the places where a library call inside transcribe_audio can raise
Faults == {"none", "extract", "encode", "decode"}

\* transcribe_audio(model, ..., audio, language) with the environment's fault:
\* feature extraction, then language.lower(), then encoding and decoding
transcribe_audio(m, audio, language, fault) ==
    CASE fault = "extract" -> Raise("extract failed")
      [] language = "nonstring" -> Raise("AttributeError")
      [] fault = "encode" -> Raise("encode failed")
      [] fault = "decode" -> Raise("decode failed")
      [] OTHER ->
           Return(IF \A k \in RequiredWeights : m.params[k] = "file"
                  THEN <<"transcript of", audio, language>>
                  ELSE <<"noise from", audio, language>>)

\* json.dumps of the three response objects
StatusReady == [key |-> "status", value |-> <<"ready">>]
TextLine(t) == [key |-> "text", value |-> t]
ErrorLine(e) == [key |-> "error", value |-> <<e>>]

(***************************************************************************)
(* State.                                                                  *)
(***************************************************************************)
VARIABLES
    pc,         \* where main() is
    exit,       \* why the process ended: "usage", "load_model" or "warmup"
                \* (that call raised), "exception" (uncaught in the loop),
                \* "quit", "eof"; "none" while it runs
    args,       \* the parsed command line
    modelDir,   \* the directory --model-dir names
    shared,     \* model, tokenizer, feature_extractor, config
    loads,      \* calls of load_model so far
    pending,    \* lines written to stdin and not yet read
    closed,     \* the client closed stdin
    written,    \* lines the client has written so far
    cur,        \* the line main() read last
    audio,      \* the samples load_wav returned for cur
    fault,      \* where the latest call of transcribe_audio was made to fail
    warmed,     \* the warm-up transcription has completed
    stdout,     \* the protocol channel
    stderr,     \* the log channel
    outs,       \* lines printed to stdout since cur was read
    calls,      \* calls of transcribe_audio since cur was read
    enc,        \* one call of the AudioEncoder: its input and what it computed
    prm,        \* the language tag of one prompt
    spl,        \* one splice of audio embeddings into a prompt
    fwd,        \* one generation: the forward passes of Qwen3ASRModel
    win,        \* the scan of one Hann window of compare_mel.py
    gen,        \* transcribe_audio's generation loop and its KV caches
    lay,        \* the chunk layout of one recording
    qnt,        \* load_model deciding which modules to quantize
    san,        \* the weight keys of a checkpoint being loaded
    shl         \* the desktop shell (legacy/python/main.py)

\* the state of the server, and the state of the computations that are
\* followed on their own
serverVars == <<pc, exit, args, modelDir, shared, loads, pending, closed,
                written, cur, audio, fault, warmed, stdout, stderr, outs, calls>>
\* the computations followed after the first five
rest == <<gen, lay, qnt, san, shl>>
aux == <<enc, prm, spl, fwd, win, rest>>
vars == <<serverVars, aux>>

\* a computation that is not being followed
Idle == [pc |-> "idle"]

RestIdle ==
    gen = Idle /\ lay = Idle /\ qnt = Idle /\ san = Idle /\ shl = Idle

\* the states of the RequestServer
STARTING == pc \in {"parse_args", "load_model", "warmup", "announce"}
READY    == pc \in {"read", "dispatch", "transcribe"}
STOPPED  == pc = "exited" /\ exit \in {"quit", "eof"}
CRASHED  == pc = "exited" /\ exit \in {"usage", "load_model", "warmup", "exception"}

\* the names main() has before load_model returns
Unloaded ==
    [params |-> [k \in RequiredWeights |-> "none"], tokenizer |-> "none",
     feature_extractor |-> "none", config |-> "none"]

Init ==
    /\ pc = "parse_args"
    /\ exit = "none"
    /\ args \in [model_dir : {"given", "omitted"}, warmup : BOOLEAN]
    /\ modelDir \in ModelDirs
    /\ shared = Unloaded
    /\ loads = 0
    /\ pending = <<>>
    /\ closed = FALSE
    /\ written = 0
    /\ cur = NoLine
    /\ audio = "none"
    /\ fault = "none"
    /\ warmed = FALSE
    /\ stdout = <<>>
    /\ stderr = <<>>
    /\ outs = 0
    /\ calls = 0
    /\ enc = Idle /\ prm = Idle /\ spl = Idle /\ fwd = Idle /\ win = Idle /\ RestIdle

\* print(json.dumps(obj), flush=True)
print(obj) ==
    /\ stdout' = Append(stdout, obj)
    /\ outs' = outs + 1

\* an exception no handler catches: traceback on stderr, the process ends
uncaught(e) ==
    /\ stderr' = Append(stderr, <<"Traceback", e>>)
    /\ pc' = "exited"
    /\ exit' = "exception"

(***************************************************************************)
(* The client at the other end of stdin.                                   *)
(***************************************************************************)
ClientWrite ==
    /\ pc # "exited" /\ ~closed /\ written < MaxLines
    /\ \E l \in Lines : pending' = Append(pending, l)
    /\ written' = written + 1
    /\ UNCHANGED <<aux, fault, warmed,
                   pc, exit, args, modelDir, shared, loads, closed, cur, audio,
                   stdout, stderr, outs, calls>>

ClientClose ==
    /\ pc # "exited" /\ ~closed
    /\ closed' = TRUE
    /\ UNCHANGED <<aux, fault, warmed,
                   pc, exit, args, modelDir, shared, loads, pending, written,
                   cur, audio, stdout, stderr, outs, calls>>

(***************************************************************************)
(* main(): start-up.                                                       *)
(***************************************************************************)
\* parser.parse_args(): --model-dir is required
ParseArgs ==
    /\ pc = "parse_args" /\ args.model_dir = "given"
    /\ pc' = "load_model"
    /\ UNCHANGED <<aux, fault, warmed,
                   exit, args, modelDir, shared, loads, pending, closed,
                   written, cur, audio, stdout, stderr, outs, calls>>

ParseArgsError ==
    /\ pc = "parse_args" /\ args.model_dir = "omitted"
    /\ stderr' = Append(stderr, <<"usage">>)
    /\ pc' = "exited" /\ exit' = "usage"
    /\ UNCHANGED <<aux, fault, warmed,
                   args, modelDir, shared, loads, pending, closed, written,
                   cur, audio, stdout, outs, calls>>

\* model, tokenizer, feature_extractor, config = load_model(args.model_dir)
LoadModelReturn ==
    /\ pc = "load_model" /\ ~load_model(modelDir).raised
    /\ loads' = loads + 1
    /\ shared' = load_model(modelDir).value
    /\ stderr' = stderr \o << <<"Loading model">>, <<"Model loaded">> >>
    /\ pc' = IF args.warmup THEN "warmup" ELSE "announce"
    /\ UNCHANGED <<aux, fault, warmed,
                   exit, args, modelDir, pending, closed, written, cur, audio,
                   stdout, outs, calls>>

LoadModelRaise ==
    /\ pc = "load_model" /\ load_model(modelDir).raised
    /\ loads' = loads + 1
    /\ stderr' = stderr \o << <<"Loading model">>,
                              <<"Traceback", load_model(modelDir).value>> >>
    /\ pc' = "exited" /\ exit' = "load_model"
    /\ UNCHANGED <<aux, fault, warmed,
                   args, modelDir, shared, pending, closed, written, cur,
                   audio, stdout, outs, calls>>

\* if args.warmup: transcribe_audio(model, ..., silence, "English")
WarmupReturn ==
    /\ pc = "warmup"
    /\ \E f \in Faults :
          /\ ~transcribe_audio(shared, "silence", "English", f).raised
          /\ fault' = f
    /\ warmed' = TRUE
    /\ calls' = calls + 1
    /\ stderr' = stderr \o << <<"Running warmup">>, <<"Warmup completed">> >>
    /\ pc' = "announce"
    /\ UNCHANGED <<aux, exit, args, modelDir, shared, loads, pending, closed,
                   written, cur, audio, stdout, outs>>

\* WarmupRaise with the warm-up wrapped in a try block that only logs
WarmupRaise_Swallowed ==
    /\ pc = "warmup"
    /\ \E f \in Faults :
          LET r == transcribe_audio(shared, "silence", "English", f) IN
          /\ r.raised
          /\ fault' = f
          /\ stderr' = stderr \o << <<"Running warmup">>, <<"Error", r.value>> >>
    /\ warmed' = warmed
    /\ calls' = calls + 1
    /\ pc' = "announce"
    /\ UNCHANGED <<aux, exit, args, modelDir, shared, loads, pending, closed,
                   written, cur, audio, stdout, outs>>

WarmupRaise ==
    /\ pc = "warmup"
    /\ \E f \in Faults :
          LET r == transcribe_audio(shared, "silence", "English", f) IN
          /\ r.raised
          /\ fault' = f
          /\ stderr' = stderr \o << <<"Running warmup">>, <<"Traceback", r.value>> >>
    /\ warmed' = warmed
    /\ calls' = calls + 1
    /\ pc' = "exited" /\ exit' = "warmup"
    /\ UNCHANGED <<aux, args, modelDir, shared, loads, pending, closed, written,
                   cur, audio, stdout, outs>>

\* print(json.dumps({"status": "ready"}), flush=True)
AnnounceReady ==
    /\ pc = "announce"
    /\ print(StatusReady)
    /\ stderr' = Append(stderr, <<"Ready">>)
    /\ pc' = "read"
    /\ UNCHANGED <<aux, fault, warmed,
                   exit, args, modelDir, shared, loads, pending, closed,
                   written, cur, audio, calls>>

(***************************************************************************)
(* main(): the serving loop, `for line in sys.stdin`.                      *)
(***************************************************************************)
\* the loop takes the next line
ReadLine ==
    /\ pc = "read" /\ pending # <<>>
    /\ cur' = Head(pending)
    /\ pending' = Tail(pending)
    /\ audio' = "none"
    /\ fault' = "none"
    /\ outs' = 0
    /\ calls' = 0
    /\ pc' = "dispatch"
    /\ UNCHANGED <<aux, warmed,
                   exit, args, modelDir, shared, loads, closed, written,
                   stdout, stderr>>

\* stdin is at end of file: the loop ends and main() returns
EndOfInput ==
    /\ pc = "read" /\ pending = <<>> /\ closed
    /\ pc' = "exited" /\ exit' = "eof"
    /\ UNCHANGED <<aux, fault, warmed,
                   args, modelDir, shared, loads, pending, closed, written,
                   cur, audio, stdout, stderr, outs, calls>>

\* request = json.loads(line), for a line that parses
Request == json_loads(cur).value

Parsed == pc = "dispatch" /\ cur.raw # "blank" /\ ~json_loads(cur).raised

\* request.get("language", "English")
Language == IF Request.language = "absent" THEN "English" ELSE Request.language

\* if not line: continue
SkipBlank ==
    /\ pc = "dispatch" /\ cur.raw = "blank"
    /\ pc' = "read"
    /\ UNCHANGED <<aux, fault, warmed,
                   exit, args, modelDir, shared, loads, pending, closed,
                   written, cur, audio, stdout, stderr, outs, calls>>

\* InvalidJSON without its except clause: the JSONDecodeError escapes
InvalidJSON_Uncaught ==
    /\ pc = "dispatch" /\ cur.raw # "blank" /\ json_loads(cur).raised
    /\ uncaught(json_loads(cur).value)
    /\ UNCHANGED <<aux, fault, warmed, args, modelDir, shared, loads, pending,
                   closed, written, cur, audio, stdout, outs, calls>>

\* except json.JSONDecodeError
InvalidJSON ==
    /\ pc = "dispatch" /\ cur.raw # "blank" /\ json_loads(cur).raised
    /\ print(ErrorLine("Invalid JSON"))
    /\ pc' = "read"
    /\ UNCHANGED <<aux, fault, warmed,
                   exit, args, modelDir, shared, loads, pending, closed,
                   written, cur, audio, stderr, calls>>

\* the request is no dict: `"cmd" in request`, request["cmd"] or
\* request.get raises outside every try block
UncaughtError ==
    /\ Parsed
    /\ \/ /\ cmd_in(Request).raised
          /\ uncaught(cmd_in(Request).value)
       \/ /\ ~cmd_in(Request).raised /\ cmd_in(Request).value
          /\ get_cmd(Request).raised
          /\ uncaught(get_cmd(Request).value)
       \/ /\ ~cmd_in(Request).raised /\ ~cmd_in(Request).value
          /\ get_field(Request, "wav").raised
          /\ uncaught(get_field(Request, "wav").value)
    /\ UNCHANGED <<aux, fault, warmed,
                   args, modelDir, shared, loads, pending, closed, written,
                   cur, audio, stdout, outs, calls>>

\* "cmd" in request, and request["cmd"] is read
HasCmd ==
    /\ Parsed
    /\ ~cmd_in(Request).raised /\ cmd_in(Request).value
    /\ ~get_cmd(Request).raised

\* neither a command nor an exception before the wav path is looked at
HasNoCmd ==
    /\ Parsed
    /\ ~cmd_in(Request).raised /\ ~cmd_in(Request).value
    /\ ~get_field(Request, "wav").raised

\* Ping with the command compared against another spelling: the line falls
\* through to the unknown-command branch
Ping_Misspelt ==
    /\ HasCmd /\ get_cmd(Request).value = "ping"
    /\ print(ErrorLine("Unknown command"))
    /\ pc' = "read"
    /\ UNCHANGED <<aux, fault, warmed, exit, args, modelDir, shared, loads, pending,
                   closed, written, cur, audio, stderr, calls>>

\* if cmd == "ping"
Ping ==
    /\ HasCmd /\ get_cmd(Request).value = "ping"
    /\ print(StatusReady)
    /\ pc' = "read"
    /\ UNCHANGED <<aux, fault, warmed,
                   exit, args, modelDir, shared, loads, pending, closed,
                   written, cur, audio, stderr, calls>>

\* Quit with `continue` in place of `break`
Quit_Continue ==
    /\ HasCmd /\ get_cmd(Request).value = "quit"
    /\ stderr' = Append(stderr, <<"Quit command received">>)
    /\ pc' = "read"
    /\ UNCHANGED <<aux, fault, warmed, exit, args, modelDir, shared, loads, pending,
                   closed, written, cur, audio, stdout, outs, calls>>

\* elif cmd == "quit": break
Quit ==
    /\ HasCmd /\ get_cmd(Request).value = "quit"
    /\ stderr' = Append(stderr, <<"Quit command received">>)
    /\ pc' = "exited" /\ exit' = "quit"
    /\ UNCHANGED <<aux, fault, warmed,
                   args, modelDir, shared, loads, pending, closed, written,
                   cur, audio, stdout, outs, calls>>

\* else: Unknown command
UnknownCommand ==
    /\ HasCmd /\ get_cmd(Request).value \notin {"ping", "quit"}
    /\ print(ErrorLine("Unknown command"))
    /\ pc' = "read"
    /\ UNCHANGED <<aux, fault, warmed,
                   exit, args, modelDir, shared, loads, pending, closed,
                   written, cur, audio, stderr, calls>>

\* if not wav_path
MissingWav ==
    /\ HasNoCmd /\ falsy(get_field(Request, "wav").value)
    /\ print(ErrorLine("Missing 'wav' field"))
    /\ pc' = "read"
    /\ UNCHANGED <<aux, fault, warmed,
                   exit, args, modelDir, shared, loads, pending, closed,
                   written, cur, audio, stderr, calls>>

\* try: audio = load_wav(wav_path) ... except Exception
LoadWavRaise ==
    /\ HasNoCmd /\ ~falsy(get_field(Request, "wav").value)
    /\ LET r == load_wav(get_field(Request, "wav").value) IN
       /\ r.raised
       /\ stderr' = Append(stderr, <<"Error", r.value>>)
       /\ print(ErrorLine(r.value))
    /\ pc' = "read"
    /\ UNCHANGED <<aux, fault, warmed,
                   exit, args, modelDir, shared, loads, pending, closed,
                   written, cur, audio, calls>>

\* LoadWavReturn with the progress message printed without file=sys.stderr
LoadWavReturn_LogsToStdout ==
    /\ HasNoCmd /\ ~falsy(get_field(Request, "wav").value)
    /\ LET r == load_wav(get_field(Request, "wav").value) IN
       /\ ~r.raised
       /\ audio' = r.value
    /\ stdout' = Append(stdout, [key |-> "log", value |-> <<"Transcribing">>])
    /\ pc' = "transcribe"
    /\ UNCHANGED <<aux, fault, warmed, exit, args, modelDir, shared, loads,
                   pending, closed, written, cur, stderr, outs, calls>>

\* audio = load_wav(wav_path) returned: transcribe_audio is called next
LoadWavReturn ==
    /\ HasNoCmd /\ ~falsy(get_field(Request, "wav").value)
    /\ LET r == load_wav(get_field(Request, "wav").value) IN
       /\ ~r.raised
       /\ audio' = r.value
    /\ stderr' = Append(stderr, <<"Transcribing">>)
    /\ pc' = "transcribe"
    /\ UNCHANGED <<aux, fault, warmed,
                   exit, args, modelDir, shared, loads, pending, closed,
                   written, cur, stdout, outs, calls>>

\* TranscribeReturn with a KV cache kept from one request to the next: from
\* the second line on, decoding starts from what earlier requests left
TranscribeReturn_SharedCache ==
    /\ pc = "transcribe"
    /\ \E f \in Faults :
         LET r == transcribe_audio(shared, audio, Language, f) IN
         /\ ~r.raised
         /\ fault' = f
         /\ print(TextLine(IF written - Len(pending) > 1
                           THEN <<"noise from", audio, Language>>
                           ELSE r.value))
    /\ calls' = calls + 1
    /\ stderr' = Append(stderr, <<"Transcription completed">>)
    /\ pc' = "read"
    /\ UNCHANGED <<aux, warmed, exit, args, modelDir, shared, loads, pending,
                   closed, written, cur, audio>>

\* TranscribeReturn with a conversion of the weights done in place on the
\* shared model while the request is served
TranscribeReturn_ConvertsWeights ==
    /\ pc = "transcribe"
    /\ \E f \in Faults :
         LET r == transcribe_audio(shared, audio, Language, f) IN
         /\ ~r.raised
         /\ fault' = f
         /\ print(TextLine(r.value))
    /\ shared' = [shared EXCEPT !.params = [k \in RequiredWeights |-> "converted"]]
    /\ calls' = calls + 1
    /\ stderr' = Append(stderr, <<"Transcription completed">>)
    /\ pc' = "read"
    /\ UNCHANGED <<aux, warmed, exit, args, modelDir, loads, pending, closed,
                   written, cur, audio>>

\* text = transcribe_audio(...); print(json.dumps({"text": text}))
TranscribeReturn ==
    /\ pc = "transcribe"
    /\ \E f \in Faults :
         LET r == transcribe_audio(shared, audio, Language, f) IN
         /\ ~r.raised
         /\ fault' = f
         /\ print(TextLine(r.value))
    /\ calls' = calls + 1
    /\ stderr' = Append(stderr, <<"Transcription completed">>)
    /\ pc' = "read"
    /\ UNCHANGED <<aux, warmed,
                   exit, args, modelDir, shared, loads, pending, closed,
                   written, cur, audio>>

\* TranscribeRaise without the except clause around the request
TranscribeRaise_Uncaught ==
    /\ pc = "transcribe"
    /\ \E f \in Faults :
         LET r == transcribe_audio(shared, audio, Language, f) IN
         /\ r.raised
         /\ fault' = f
         /\ uncaught(r.value)
    /\ calls' = calls + 1
    /\ UNCHANGED <<aux, warmed, args, modelDir, shared, loads, pending, closed,
                   written, cur, audio, stdout, outs>>

\* transcribe_audio raised: except Exception as e
TranscribeRaise ==
    /\ pc = "transcribe"
    /\ \E f \in Faults :
         LET r == transcribe_audio(shared, audio, Language, f) IN
         /\ r.raised
         /\ fault' = f
         /\ stderr' = Append(stderr, <<"Error", r.value>>)
         /\ print(ErrorLine(r.value))
    /\ calls' = calls + 1
    /\ pc' = "read"
    /\ UNCHANGED <<aux, warmed,
                   exit, args, modelDir, shared, loads, pending, closed,
                   written, cur, audio>>

Next ==
    \/ ClientWrite \/ ClientClose
    \/ ParseArgs \/ ParseArgsError
    \/ LoadModelReturn \/ LoadModelRaise
    \/ WarmupReturn \/ WarmupRaise
    \/ AnnounceReady
    \/ ReadLine \/ EndOfInput
    \/ SkipBlank \/ InvalidJSON \/ UncaughtError
    \/ Ping \/ Quit \/ UnknownCommand \/ MissingWav
    \/ LoadWavRaise \/ LoadWavReturn
    \/ TranscribeReturn \/ TranscribeRaise

Spec == Init /\ [][Next]_vars

(***************************************************************************)
(* Vocabulary of the properties.  The classes of input lines are defined   *)
(* on the text of the line, not on the branch main() takes for it.         *)
(***************************************************************************)
Last(q) == q[Len(q)]

\* lines main() has taken from stdin so far
LinesRead == written - Len(pending)

\* the line last read has been dealt with: main() is back at the loop head
\* or the process has ended
Handled == cur # NoLine /\ pc \in {"read", "exited"}

\* main() has not ended because of cur: it still serves, or input ended
StillServing == pc \in {"read", "dispatch", "transcribe"} \/ (pc = "exited" /\ exit = "eof")

IsObject(l) == l.raw = "json" /\ l.jtype = "dict"
IsPing(l) == IsObject(l) /\ l.cmd = "ping"
IsQuit(l) == IsObject(l) /\ l.cmd = "quit"
\* a command other than ping and quit
IsOtherCommand(l) == IsObject(l) /\ l.cmd \notin {"absent", "ping", "quit"}
\* a request (no command) whose wav field is missing or empty
LacksWav(l) == IsObject(l) /\ l.cmd = "absent" /\ l.wav \in {"absent", "empty"}
\* a request whose wav field names a file
NamesFile(l) == IsObject(l) /\ l.cmd = "absent" /\ l.wav \in Paths
\* the file is missing, not mono, not 16-bit or not 16000 Hz
Unacceptable(wf) ==
    \/ ~wf.exists
    \/ wf.nchannels # 1
    \/ wf.sampwidth * 8 # 16
    \/ wf.framerate # 16000
BadWavRequest(l) == NamesFile(l) /\ Unacceptable(WavFile(l.wav))

\* exactly one line was written for cur, an {"error": ...} object, and
\* transcribe_audio was not called
OneErrorNoInference ==
    /\ outs = 1
    /\ stdout # <<>> /\ Last(stdout).key = "error"
    /\ calls = 0

(***************************************************************************)
(* C1.  As stated: while READY, a line that is not valid JSON, a command   *)
(* other than ping/quit, or a request without a non-empty wav field gets   *)
(* exactly one {"error": ...} response, runs no inference and leaves the   *)
(* server READY.  A blank line is not valid JSON and gets no response.     *)
(***************************************************************************)
C1_AsStated ==
    (cur.raw \in {"blank", "malformed"} \/ IsOtherCommand(cur) \/ LacksWav(cur))
        => /\ StillServing /\ pc # "transcribe"
           /\ Handled => OneErrorNoInference

\* C1 amended: the same for a non-blank line that json.loads rejects, a JSON
\* object whose cmd is neither ping nor quit, and a JSON object without cmd
\* and without a non-empty wav; a blank line gets no response at all, runs
\* no inference and leaves the server READY.
C1_ProtocolErrors ==
    /\ (cur.raw = "malformed" \/ IsOtherCommand(cur) \/ LacksWav(cur))
          => /\ StillServing /\ pc # "transcribe"
             /\ calls = 0
             /\ Handled => OneErrorNoInference
             /\ pc = "dispatch" => outs = 0
    /\ cur.raw = "blank"
          => /\ StillServing /\ pc # "transcribe"
             /\ outs = 0 /\ calls = 0

\* a malformed line and then {} have each been answered with one error
C1_Witness ==
    /\ pc = "read" /\ LacksWav(cur) /\ Len(stdout) = 3
    /\ stdout[2] = ErrorLine("Invalid JSON")
    /\ stdout[3] = ErrorLine("Missing 'wav' field")
    /\ outs = 1 /\ calls = 0

(***************************************************************************)
(* C2.  Once READY the server stops only on a quit command or at end of    *)
(* input; every other line, whatever its content, leaves the loop running. *)
(***************************************************************************)
C2_StopsOnlyOnQuitOrEof ==
    (stdout # <<>> /\ pc = "exited")
        => \/ exit = "quit" /\ IsQuit(cur)
           \/ exit = "eof" /\ pending = <<>> /\ closed

(***************************************************************************)
(* C3.  Every request line (non-blank line) other than a quit command has  *)
(* exactly one response line, written before the next line is read.        *)
(***************************************************************************)
C3_OneResponsePerRequest ==
    /\ (Handled /\ cur.raw # "blank" /\ ~IsQuit(cur)) => outs = 1
    /\ outs <= 1
    /\ Len(stdout) <= 1 + LinesRead

(***************************************************************************)
(* C4.  A request whose WAV file is missing, not mono, not 16-bit or not   *)
(* 16000 Hz gets an {"error": ...} response, transcribe_audio is not       *)
(* called for it, the server stays READY and a later ping is answered      *)
(* {"status": "ready"}.                                                    *)
(***************************************************************************)
WavErrors ==
    {ErrorLine(e) : e \in {"FileNotFoundError", "Expected mono",
                           "Expected 16-bit", "Expected 16kHz"}}

C4_BadWavRejected ==
    /\ BadWavRequest(cur)
          => /\ StillServing /\ pc # "transcribe"
             /\ calls = 0
             /\ Handled => OneErrorNoInference
    /\ (Handled /\ IsPing(cur) /\ Len(stdout) >= 2
            /\ stdout[Len(stdout) - 1] \in WavErrors)
          => /\ Last(stdout) = StatusReady
             /\ StillServing

\* a 44.1 kHz file was rejected, and the ping after it was answered
C4_Witness ==
    /\ pc = "read" /\ IsPing(cur)
    /\ stdout = <<StatusReady, ErrorLine("Expected 16kHz"), StatusReady>>

(***************************************************************************)
(* C5.  When transcribe_audio raises while a request is handled (feature   *)
(* extraction, encoding or decoding fails), exactly one {"error": ...}     *)
(* line is written for the request, no {"text": ...} line, and the server  *)
(* remains READY.                                                          *)
(***************************************************************************)
InferenceFailed ==
    /\ IsObject(cur) /\ cur.cmd = "absent"
    /\ calls = 1
    /\ fault # "none" \/ cur.language = "nonstring"

C5_InferenceErrorCaught ==
    InferenceFailed
        => /\ StillServing /\ Handled
           /\ outs = 1
           /\ Last(stdout).key = "error"

\* decoding failed for the second request, after the first one succeeded
C5_Witness ==
    /\ pc = "read" /\ calls = 1 /\ fault = "decode"
    /\ Len(stdout) = 3 /\ stdout[2].key = "text"
    /\ stdout[3] = ErrorLine("decode failed")

(***************************************************************************)
(* C6.  A {"cmd": "ping"} line read in READY, also before any              *)
(* transcription, is answered with exactly {"status": "ready"}, calls no   *)
(* inference and leaves the server READY.                                  *)
(***************************************************************************)
C6_PingAnswered ==
    IsPing(cur)
        => /\ StillServing /\ pc # "transcribe"
           /\ calls = 0
           /\ pc = "dispatch" => outs = 0
           /\ Handled => outs = 1 /\ Last(stdout) = StatusReady

\* the very first line is a ping and it has been answered
C6_Witness ==
    /\ pc = "read" /\ IsPing(cur)
    /\ LinesRead = 1
    /\ stdout = <<StatusReady, StatusReady>>

(***************************************************************************)
(* C7.  From the moment a {"cmd": "quit"} line is read, nothing more is    *)
(* written to stdout and no further line is taken from stdin, even when    *)
(* lines are pending; the loop ends.                                       *)
(***************************************************************************)
C7_NothingAfterQuit ==
    /\ [](IsQuit(cur) => outs = 0 /\ calls = 0)
    /\ []((IsQuit(cur) /\ pc # "dispatch") => (pc = "exited" /\ exit = "quit"))
    /\ [][IsQuit(cur) => (stdout' = stdout /\ LinesRead' = LinesRead /\ cur' = cur)]_vars

\* the process has ended on quit with a line left unread on stdin
C7_Witness ==
    /\ pc = "exited" /\ exit = "quit"
    /\ pending # <<>>
    /\ stdout = <<StatusReady>>

(***************************************************************************)
(* C8.  The first line on stdout is {"status": "ready"}; it is written     *)
(* only after load_model has returned and, with --warmup, after the        *)
(* warm-up transcription has completed.  When load_model or the warm-up    *)
(* raises, the process ends with nothing written to stdout and no line     *)
(* read from stdin.                                                        *)
(***************************************************************************)
C8_ReadyAnnouncedAfterStartup ==
    /\ stdout # <<>>
          => /\ stdout[1] = StatusReady
             /\ loads = 1 /\ shared # Unloaded
             /\ modelDir.exists /\ modelDir.config = "ok" /\ modelDir.tokenizer
             /\ args.warmup => warmed
    /\ exit \in {"usage", "load_model", "warmup"}
          => /\ stdout = <<>>
             /\ cur = NoLine /\ LinesRead = 0
    /\ STARTING => stdout = <<>> /\ cur = NoLine

\* started with --warmup: the warm-up has completed and ready is announced
C8_Witness ==
    /\ pc = "read" /\ args.warmup /\ warmed
    /\ stdout = <<StatusReady>>
    /\ pending # <<>>

(***************************************************************************)
(* C9.  load_model has no partial load: a model that serves requests has   *)
(* every required weight from the weight files, with the matching shape.   *)
(***************************************************************************)
C9_NoPartialLoad ==
    READY => \A k \in RequiredWeights :
                 modelDir.weights[k] = "good" /\ shared.params[k] = "file"

(***************************************************************************)
(* C10. Model, tokenizer, feature extractor and configuration are loaded   *)
(* exactly once, during STARTING; once ready is announced, no step of the  *)
(* server, a request that succeeds or fails included, changes them.        *)
(***************************************************************************)
C10_LoadedOnceThenReadOnly ==
    /\ [](loads <= 1 /\ (stdout # <<>> => loads = 1))
    /\ [][loads' # loads => (STARTING /\ shared = Unloaded)]_vars
    /\ [][stdout # <<>> => (shared' = shared /\ loads' = loads)]_vars

\* a request failed in decoding and the next one was transcribed
C10_Witness ==
    /\ pc = "read" /\ loads = 1 /\ calls = 1
    /\ Len(stdout) = 3
    /\ stdout[2] = ErrorLine("decode failed")
    /\ stdout[3].key = "text"
    /\ shared = load_model(modelDir).value

(***************************************************************************)
(* C11. The response to a transcription request depends only on the        *)
(* request's WAV file and language: whatever was served before it, the     *)
(* response is the same function of the two (for the model directory the   *)
(* process was started on, and when no library call is made to fail).      *)
(***************************************************************************)
\* the response a request for wav in language gets as the first request
ResponseTo(wav, language) ==
    LET wf == WavFile(wav)
        lang == IF language = "absent" THEN "English" ELSE language
    IN CASE wav \notin Paths -> ErrorLine("AttributeError")
         [] ~wf.exists -> ErrorLine("FileNotFoundError")
         [] wf.nchannels # 1 -> ErrorLine("Expected mono")
         [] wf.sampwidth * 8 # 16 -> ErrorLine("Expected 16-bit")
         [] wf.framerate # 16000 -> ErrorLine("Expected 16kHz")
         [] lang = "nonstring" -> ErrorLine("AttributeError")
         [] OTHER ->
              TextLine(<<IF \A k \in RequiredWeights : modelDir.weights[k] = "good"
                         THEN "transcript of" ELSE "noise from", wav, lang>>)

IsTranscriptionRequest(l) == IsObject(l) /\ l.cmd = "absent" /\ ~LacksWav(l)

C11_ResponseDependsOnRequestOnly ==
    (Handled /\ IsTranscriptionRequest(cur) /\ fault = "none")
        => /\ outs = 1
           /\ Last(stdout) = ResponseTo(cur.wav, cur.language)

\* the same request served twice in a row got the same text twice
C11_Witness ==
    /\ pc = "read" /\ LinesRead = 2 /\ calls = 1 /\ fault = "none"
    /\ cur = Obj("absent", "/ok.wav", "absent")
    /\ Len(stdout) = 3
    /\ stdout[2].key = "text" /\ stdout[3] = stdout[2]

(***************************************************************************)
(* C12. Log messages go to stderr, never to stdout: stdout holds only      *)
(* lines that are one JSON object {"status": ...}, {"text": ...} or        *)
(* {"error": ...}.                                                         *)
(***************************************************************************)
LogMessages ==
    {"usage", "Loading model", "Model loaded", "Running warmup",
     "Warmup completed", "Ready", "Quit command received", "Transcribing",
     "Transcription completed", "Error", "Traceback"}

C12_StdoutIsProtocolOnly ==
    /\ \A i \in 1..Len(stdout) :
          /\ stdout[i].key \in {"status", "text", "error"}
          /\ stdout[i].key = "status" => stdout[i] = StatusReady
    /\ \A i \in 1..Len(stderr) : stderr[i][1] \in LogMessages
    /\ stdout # <<>> => \E i \in 1..Len(stderr) : stderr[i] = <<"Ready">>
    /\ (Handled /\ calls = 1)
          => Last(stderr)[1] \in {"Transcription completed", "Error"}
    /\ exit = "quit" => Last(stderr) = <<"Quit command received">>

\* a transcription and a failed request are on stdout, their logs on stderr
C12_Witness ==
    /\ pc = "read" /\ Len(stdout) = 3
    /\ stdout[2].key = "text" /\ stdout[3].key = "error"
    /\ Len(stderr) >= 6
    /\ Last(stderr) = <<"Error", "FileNotFoundError">>

(***************************************************************************)
(* The audio encoder's length accounting and block attention mask.         *)
(*                                                                         *)
(* load_model keeps a key of audio_config only if it is in                 *)
(* AudioEncoderConfig.__init__.__code__.co_varnames, which for             *)
(* __init__(self, **kwargs) is (self, kwargs): no key passes, and the      *)
(* encoder always runs with the defaults of AudioEncoderConfig.            *)
(***************************************************************************)
MaxFeatLen == 850

n_window == 50
n_window_infer == 800
\* the additive bias of a masked pair
Masked == -1000000000

RECURSIVE Sum(_)
Sum(s) == IF s = <<>> THEN 0 ELSE Head(s) + Sum(Tail(s))

RECURSIVE Max(_)
Max(s) == IF Len(s) = 1 THEN s[1]
          ELSE LET m == Max(Tail(s)) IN IF s[1] > m THEN s[1] ELSE m

Min2(a, b) == IF a < b THEN a ELSE b

\* a division that rounds toward zero, as C integer division does
_trunc_div(a, b) == IF a >= 0 THEN a \div b ELSE -((-a) \div b)

\* mx.floor(a.astype(float32) / b).astype(int32), exact at these magnitudes
_floor_div(a, b) == IF a >= 0 THEN a \div b ELSE -((-a + b - 1) \div b)

_get_feat_extract_output_lengths(input_lengths) ==
    LET input_lengths_leave == input_lengths % 100
        feat_lengths == _floor_div(input_lengths_leave - 1, 2) + 1
    IN _floor_div(_floor_div(feat_lengths - 1, 2) + 1 - 1, 2) + 1
         + (input_lengths \div 100) * 13

\* _compute_chunk_layout giving every chunk, the last one too, chunk_size
_compute_chunk_layout_full(feat_len, chunk_size) ==
    [j \in 1..((feat_len + chunk_size - 1) \div chunk_size) |-> chunk_size]

\* chunk_lengths of one recording; chunk_counts is its length
_compute_chunk_layout(feat_len, chunk_size) ==
    LET num_chunks == (feat_len + chunk_size - 1) \div chunk_size
        remainder == feat_len % chunk_size
    IN [j \in 1..num_chunks |->
          IF j = num_chunks
          THEN (IF remainder = 0 THEN chunk_size ELSE remainder)
          ELSE chunk_size]

\* time length out of nn.Conv2d(kernel_size=3, stride=2, padding=1)
conv2d(t) == (t + 2 * 1 - 3) \div 2 + 1

\* _build_cu_seqlens without its remainder window
_build_cu_seqlens_full_only(cnn_len, window_aftercnn) ==
    [k \in 1..(cnn_len \div window_aftercnn + 1) |-> (k - 1) * window_aftercnn]

\* np.cumsum([0] + [window_aftercnn] * full_windows + [remainder] if remainder)
_build_cu_seqlens(cnn_len, window_aftercnn) ==
    LET full_windows == cnn_len \div window_aftercnn
        remainder == cnn_len % window_aftercnn
        cu == [k \in 1..(full_windows + 1) |-> (k - 1) * window_aftercnn]
    IN IF remainder # 0 THEN Append(cu, cnn_len) ELSE cu

\* _create_block_attention_mask clearing only the diagonal of each block
_create_block_attention_mask_diagonal(seq_len, cu_seqlens) ==
    [i \in 0..(seq_len - 1), j \in 0..(seq_len - 1) |->
        IF i = j THEN 0 ELSE Masked]

\* mx.full(-1e9), then mask[start:end, start:end] = 0.0 for each block
_create_block_attention_mask(seq_len, cu_seqlens) ==
    [i \in 0..(seq_len - 1), j \in 0..(seq_len - 1) |->
        IF \E b \in 1..(Len(cu_seqlens) - 1) :
              /\ cu_seqlens[b] <= i /\ i < cu_seqlens[b + 1]
              /\ cu_seqlens[b] <= j /\ j < cu_seqlens[b + 1]
        THEN 0 ELSE Masked]

\* what AudioEncoder.__call__ computes for one recording of feature_len frames
AudioEncoder(feature_len) ==
    LET aftercnn_lens == _get_feat_extract_output_lengths(feature_len)
        chunk_size == n_window * 2
        chunk_lengths == _compute_chunk_layout(feature_len, chunk_size)
        max_chunk_len == Max(chunk_lengths)
        feature_lens_after_cnn ==
            [i \in DOMAIN chunk_lengths |->
                _get_feat_extract_output_lengths(chunk_lengths[i])]
        max_len_after_cnn == Max(feature_lens_after_cnn)
        t == conv2d(conv2d(conv2d(max_chunk_len)))
        hidden_list ==
            [i \in DOMAIN chunk_lengths |-> Min2(t, feature_lens_after_cnn[i])]
        window_aftercnn ==
            max_len_after_cnn * (n_window_infer \div (n_window * 2))
    IN [chunk_lengths |-> chunk_lengths,
        hidden_list |-> hidden_list,
        hidden_states |-> Sum(hidden_list),
        window_aftercnn |-> window_aftercnn,
        cu_seqlens |-> _build_cu_seqlens(aftercnn_lens, window_aftercnn)]

\* the server is not part of a run that follows one computation
ServerIdle ==
    /\ pc = "parse_args"
    /\ exit = "none"
    /\ args = [model_dir |-> "given", warmup |-> TRUE]
    /\ modelDir = CHOOSE d \in ModelDirs : TRUE
    /\ shared = Unloaded
    /\ loads = 0
    /\ pending = <<>>
    /\ closed = FALSE
    /\ written = 0
    /\ cur = NoLine
    /\ audio = "none"
    /\ fault = "none"
    /\ warmed = FALSE
    /\ stdout = <<>>
    /\ stderr = <<>>
    /\ outs = 0
    /\ calls = 0

InitEncoder ==
    /\ ServerIdle
    /\ enc \in {[pc |-> "features", L |-> l] : l \in 0..MaxFeatLen}
    /\ prm = Idle /\ spl = Idle /\ fwd = Idle /\ win = Idle /\ RestIdle

\* transcribe_audio: the number of <|audio_pad|> tokens of the prompt
CountAudioTokens ==
    /\ enc.pc = "features"
    /\ enc' = [pc |-> "prompt", L |-> enc.L,
               num_audio_tokens |-> _get_feat_extract_output_lengths(enc.L)]
    /\ UNCHANGED <<serverVars, prm, spl, fwd, win, rest>>

\* model.get_audio_features on a recording with frames
GetAudioFeatures ==
    /\ enc.pc = "prompt" /\ enc.L >= 1
    /\ LET r == AudioEncoder(enc.L) IN
       enc' = [pc |-> "encoded", L |-> enc.L,
               num_audio_tokens |-> enc.num_audio_tokens,
               chunk_lengths |-> r.chunk_lengths,
               hidden_list |-> r.hidden_list,
               hidden_states |-> r.hidden_states,
               window_aftercnn |-> r.window_aftercnn,
               cu_seqlens |-> r.cu_seqlens]
    /\ UNCHANGED <<serverVars, prm, spl, fwd, win, rest>>

\* no frame, no chunk: chunk_lengths.max() of an empty array raises
GetAudioFeaturesRaise ==
    /\ enc.pc = "prompt" /\ enc.L = 0
    /\ enc' = [pc |-> "raised", L |-> enc.L,
               num_audio_tokens |-> enc.num_audio_tokens,
               error |-> "ValueError"]
    /\ UNCHANGED <<serverVars, prm, spl, fwd, win, rest>>

NextEncoder == CountAudioTokens \/ GetAudioFeatures \/ GetAudioFeaturesRaise

SpecEncoder == InitEncoder /\ [][NextEncoder]_vars

Encoded == enc.pc = "encoded"

\* the mask the encoder layers were given
attention_mask == _create_block_attention_mask(enc.hidden_states, enc.cu_seqlens)

Positions == 0..(enc.hidden_states - 1)

\* the chunk whose rows hold position i of the concatenated hidden states
ChunkOf(i) ==
    CHOOSE c \in DOMAIN enc.hidden_list :
        /\ Sum(SubSeq(enc.hidden_list, 1, c - 1)) <= i
        /\ i < Sum(SubSeq(enc.hidden_list, 1, c))

(***************************************************************************)
(* C13. For every feature length L >= 1 the encoder returns as many        *)
(* embedding rows (the per-chunk lengths after downsampling, summed) as    *)
(* _get_feat_extract_output_lengths(L), the number of audio placeholder    *)
(* tokens of the prompt.                                                   *)
(***************************************************************************)
C13_RowsEqualPlaceholders ==
    Encoded =>
        /\ enc.hidden_states = Sum(enc.hidden_list)
        /\ enc.hidden_states = enc.num_audio_tokens
        /\ enc.hidden_states = _get_feat_extract_output_lengths(enc.L)
        /\ Sum(enc.chunk_lengths) = enc.L

\* a recording of several full chunks and a short last one
C13_Witness ==
    /\ Encoded /\ enc.L = 250
    /\ enc.chunk_lengths = <<100, 100, 50>>
    /\ enc.hidden_list = <<13, 13, 7>>
    /\ enc.num_audio_tokens = 33

(***************************************************************************)
(* C14. For every L >= 0, _get_feat_extract_output_lengths(L) is           *)
(* 13 * (L div 100) + ceil(ceil(ceil(r/2)/2)/2) with r = L mod 100.        *)
(***************************************************************************)
CeilHalf(x) == (x + 1) \div 2

C14_OutputLengthFormula ==
    enc.pc # "features" =>
        LET r == enc.L % 100 IN
        enc.num_audio_tokens
            = 13 * (enc.L \div 100) + CeilHalf(CeilHalf(CeilHalf(r)))

\* three blocks and a remainder of 17 that rounds up at each halving
C14_Witness ==
    enc.pc = "prompt" /\ enc.L = 317 /\ enc.num_audio_tokens = 39 + 3

(***************************************************************************)
(* C15. As stated: with more than one chunk, every pair of positions of    *)
(* different chunks is masked (-1e9).                                      *)
(***************************************************************************)
C15_AsStated ==
    (Encoded /\ Len(enc.chunk_lengths) > 1) =>
        \A i, j \in Positions :
            ChunkOf(i) # ChunkOf(j) => attention_mask[i, j] = Masked

(***************************************************************************)
(* C15, amended. The mask forbids attention between positions of           *)
(* different attention windows of window_aftercnn positions (the rows of   *)
(* n_window_infer / (2 * n_window) = 8 chunks), and only those: positions  *)
(* of different chunks of one window attend to each other.                 *)
(***************************************************************************)
C15_NoAttentionAcrossWindows ==
    (Encoded /\ Len(enc.chunk_lengths) > 1) =>
        /\ enc.window_aftercnn = 13 * 8
        /\ \A i, j \in Positions :
              attention_mask[i, j] =
                  IF i \div enc.window_aftercnn = j \div enc.window_aftercnn
                  THEN 0 ELSE Masked

\* nine chunks: the ninth is in a second window
C15_Witness ==
    /\ Encoded /\ enc.L = 850
    /\ enc.cu_seqlens = <<0, 104, 111>>
    /\ attention_mask[0, 103] = 0
    /\ attention_mask[103, 104] = Masked

(***************************************************************************)
(* C16. When the feature length is at most the chunk size (one chunk),     *)
(* the mask is zero for every pair of positions.                           *)
(***************************************************************************)
C16_SingleChunkUnmasked ==
    (Encoded /\ enc.L <= n_window * 2) =>
        /\ Len(enc.chunk_lengths) = 1
        /\ \A i, j \in Positions : attention_mask[i, j] = 0

\* a full single chunk and its 13 positions
C16_Witness ==
    /\ Encoded /\ enc.L = 100 /\ enc.hidden_states = 13
    /\ attention_mask[0, 12] = 0 /\ attention_mask[12, 0] = 0

(***************************************************************************)
(* The language tag of the prompt (transcribe_audio).  A string is a       *)
(* sequence of characters.                                                 *)
(***************************************************************************)
MaxSupported == 2

\* the names a config's support_languages and a request's language take
Names ==
    {<<>>, <<"e">>, <<"e", "n">>, <<"E", "n">>, <<"E", "N">>,
     <<"e", "s">>, <<"E", "s">>}

\* str.lower() on one character
lower_char(c) ==
    CASE c = "E" -> "e"
      [] c = "N" -> "n"
      [] OTHER -> c

\* str.lower()
lower(str) == [i \in DOMAIN str |-> lower_char(str[i])]

\* {lang.lower(): lang for lang in supported}: a later entry replaces an
\* earlier one under the same key
RECURSIVE supported_lower(_)
supported_lower(supported) ==
    IF supported = <<>> THEN <<>>
    ELSE LET n == Len(supported)
             d == supported_lower(SubSeq(supported, 1, n - 1))
             key == lower(supported[n])
         IN [k \in DOMAIN d \cup {key} |->
                IF k = key THEN supported[n] ELSE d[k]]

\* dict.get whose default is the key that was looked up
dict_get_key(d, key, default) == IF key \in DOMAIN d THEN d[key] ELSE key

\* dict.get(key, default)
dict_get(d, key, default) == IF key \in DOMAIN d THEN d[key] ELSE default

SupportedLists ==
    UNION {[1..n -> Names] : n \in 0..MaxSupported}

InitPrompt ==
    /\ ServerIdle
    /\ prm \in {[pc |-> "match", supported |-> sl, language |-> l] :
                   sl \in SupportedLists, l \in Names}
    /\ enc = Idle /\ spl = Idle /\ fwd = Idle /\ win = Idle /\ RestIdle

\* lang_name and the assistant turn "language {lang_name}<asr_text>"
MatchLanguage ==
    /\ prm.pc = "match"
    /\ LET lang_name == dict_get(supported_lower(prm.supported),
                                 lower(prm.language), prm.language)
       IN prm' = [pc |-> "prompt", supported |-> prm.supported,
                  language |-> prm.language, lang_name |-> lang_name,
                  assistant |-> <<"language ", lang_name, "<asr_text>">>]
    /\ UNCHANGED <<serverVars, enc, spl, fwd, win, rest>>

NextPrompt == MatchLanguage

SpecPrompt == InitPrompt /\ [][NextPrompt]_vars

\* the entries of the supported list that match the request, whatever the case
Matching(sup, language) ==
    {i \in DOMAIN sup : lower(sup[i]) = lower(language)}

(***************************************************************************)
(* C17. The language tag written in the prompt is the supported-list       *)
(* entry whose lowercase form equals the lowercase form of the requested   *)
(* language (the last such entry, if several), in the list's spelling;     *)
(* with no such entry it is the caller's string unchanged.                 *)
(***************************************************************************)
C17_LanguageTag ==
    prm.pc = "prompt" =>
        LET M == Matching(prm.supported, prm.language) IN
        /\ M # {} =>
              prm.lang_name = prm.supported[CHOOSE i \in M : \A j \in M : j <= i]
        /\ M = {} => prm.lang_name = prm.language
        /\ prm.assistant[2] = prm.lang_name

\* "EN" is asked for and the list spells it "En"
C17_Witness ==
    /\ prm.pc = "prompt"
    /\ prm.supported = <<<<"E", "n">>, <<"e", "s">>>>
    /\ prm.language = <<"E", "N">>
    /\ prm.lang_name = <<"E", "n">>

(***************************************************************************)
(* The analysis window of compute_mel_manual (compare_mel.py).             *)
(*                                                                         *)
(* A sample 0.5 + 0.5*cos(pi*num/den) is kept as the pair <<num, den>>     *)
(* with |num| <= den: it is 1.0 exactly when num = 0, and two samples are  *)
(* equal exactly when their |num|/den are.                                 *)
(***************************************************************************)
N_FFT == 400

HannTypes == {"periodic", "symmetric"}

\* the length compute_mel_manual asks numpy.hanning for
hanning_length(hann_type, n_fft) ==
    IF hann_type = "periodic" THEN n_fft ELSE n_fft + 1

\* numpy.hanning(M)[k]: n = arange(1 - M, M, 2); 0.5 + 0.5*cos(pi*n/(M - 1))
hanning(M, k) == <<1 - M + 2 * k, M - 1>>

InitWindow ==
    /\ ServerIdle
    /\ win \in {[pc |-> "hanning", hann_type |-> h, n_fft |-> N_FFT,
                 window |-> <<>>] : h \in HannTypes}
    /\ enc = Idle /\ prm = Idle /\ spl = Idle /\ fwd = Idle /\ RestIdle

\* numpy.hanning fills the next sample
HanningSample ==
    /\ win.pc = "hanning"
    /\ Len(win.window) < hanning_length(win.hann_type, win.n_fft)
    /\ win' = [win EXCEPT !.window =
                  Append(@, hanning(hanning_length(win.hann_type, win.n_fft),
                                    Len(@)))]
    /\ UNCHANGED <<serverVars, enc, prm, spl, fwd, rest>>

\* window = np.hanning(n_fft), or np.hanning(n_fft + 1)[:-1]
WindowReady ==
    /\ win.pc = "hanning"
    /\ Len(win.window) = hanning_length(win.hann_type, win.n_fft)
    /\ win' = [win EXCEPT !.pc = "windowed",
                          !.window = SubSeq(@, 1, win.n_fft)]
    /\ UNCHANGED <<serverVars, enc, prm, spl, fwd, rest>>

NextWindow == HanningSample \/ WindowReady

SpecWindow == InitWindow /\ [][NextWindow]_vars

Abs(x) == IF x < 0 THEN -x ELSE x

SameSample(a, b) == Abs(a[1]) * b[2] = Abs(b[1]) * a[2]

IsOne(a) == a[1] = 0

\* 0.5 - 0.5*cos(2*pi*n/N) = 0.5 + 0.5*cos(pi*(2n - N)/N)
PeriodicHann(N, n) == <<2 * n - N, N>>

(***************************************************************************)
(* C18. In 'periodic' mode the window of compute_mel_manual is the         *)
(* periodic Hann window of length 400, w[n] = 0.5 - 0.5*cos(2*pi*n/400):   *)
(* its maximum is exactly 1.0, at n = 200, and it is not symmetric         *)
(* (w[n] = w[399 - n] fails).                                              *)
(***************************************************************************)
C18_PeriodicModeIsPeriodicHann ==
    (win.pc = "windowed" /\ win.hann_type = "periodic") =>
        /\ Len(win.window) = 400
        /\ \A n \in 0..399 : SameSample(win.window[n + 1], PeriodicHann(400, n))
        /\ IsOne(win.window[200 + 1])
        /\ \E n \in 0..399 : ~SameSample(win.window[n + 1], win.window[399 - n + 1])

(***************************************************************************)
(* Replacing the embeddings of the audio placeholder tokens.               *)
(*                                                                         *)
(* An embedding vector is kept as what it was made of: the token it embeds *)
(* (0 for none) and the set of audio rows added into it.                   *)
(***************************************************************************)
MaxPromptLen == 4
MaxAudioRows == 3

audio_token_id == 151676
\* two token ids that are not the placeholder
TextTokens == {151644, 151669}

embed_tokens(token) == [token |-> token, audio |-> {}]
zeros == [token |-> 0, audio |-> {}]
\* row k (from 0) of audio_features
audio_row(k) == [token |-> 0, audio |-> {k}]
\* v + audio_features[k]
add_row(v, k) == [v EXCEPT !.audio = @ \cup {k}]

\* np.nonzero(flat_mask_np)[0]: the positions (from 0) holding token, ascending
RECURSIVE nonzero(_, _)
nonzero(input_ids, token) ==
    IF input_ids = <<>> THEN <<>>
    ELSE LET n == Len(input_ids)
             before == nonzero(SubSeq(input_ids, 1, n - 1), token)
         IN IF input_ids[n] = token THEN Append(before, n - 1) ELSE before

\* the splice marking every placeholder, also those no audio row is left for
splice_every_placeholder(inputs_embeds, input_ids, n_audio) ==
    LET audio_indices == nonzero(input_ids, audio_token_id)
        num_to_replace == Min2(Len(audio_indices), n_audio)
    IN [p \in DOMAIN inputs_embeds |->
          IF \E k \in 1..Len(audio_indices) : audio_indices[k] = p - 1
          THEN (IF \E k \in 1..num_to_replace : audio_indices[k] = p - 1
                THEN audio_row((CHOOSE k \in 1..num_to_replace :
                                    audio_indices[k] = p - 1) - 1)
                ELSE zeros)
          ELSE inputs_embeds[p]]

\* zeros.at[indices].add(audio_features[:n]); zeros.at[indices].add(1);
\* mx.where(mask > 0, replacement, flat_embeds)
splice(inputs_embeds, input_ids, n_audio) ==
    LET audio_indices == nonzero(input_ids, audio_token_id)
        num_to_replace == Min2(Len(audio_indices), n_audio)
        indices == SubSeq(audio_indices, 1, num_to_replace)
        hits(p) == {k \in 1..num_to_replace : indices[k] = p - 1}
        RECURSIVE scatter_add(_, _)
        scatter_add(v, ks) ==
            IF ks = {} THEN v
            ELSE LET k == CHOOSE x \in ks : TRUE
                 IN scatter_add(add_row(v, k - 1), ks \ {k})
        replacement == [p \in DOMAIN inputs_embeds |-> scatter_add(zeros, hits(p))]
        mask == [p \in DOMAIN inputs_embeds |-> Cardinality(hits(p))]
    IN [p \in DOMAIN inputs_embeds |->
          IF mask[p] > 0 THEN replacement[p] ELSE inputs_embeds[p]]

Prompts ==
    UNION {[1..n -> TextTokens \cup {audio_token_id}] : n \in 0..MaxPromptLen}

InitSplice ==
    /\ ServerIdle
    /\ spl \in {[pc |-> "embed", input_ids |-> ids, n_audio |-> n] :
                   ids \in Prompts, n \in 0..MaxAudioRows}
    /\ enc = Idle /\ prm = Idle /\ fwd = Idle /\ win = Idle /\ RestIdle

\* inputs_embeds = model.model.embed_tokens(input_ids)
EmbedTokens ==
    /\ spl.pc = "embed"
    /\ spl' = [pc |-> "splice", input_ids |-> spl.input_ids,
               n_audio |-> spl.n_audio,
               inputs_embeds |->
                   [p \in DOMAIN spl.input_ids |-> embed_tokens(spl.input_ids[p])]]
    /\ UNCHANGED <<serverVars, enc, prm, fwd, win, rest>>

\* if audio_token_mask.any(): the placeholders' embeddings are replaced
SpliceAudio ==
    /\ spl.pc = "splice"
    /\ \E p \in DOMAIN spl.input_ids : spl.input_ids[p] = audio_token_id
    /\ spl' = [spl EXCEPT !.pc = "spliced",
                          !.inputs_embeds = splice(@, spl.input_ids, spl.n_audio)]
    /\ UNCHANGED <<serverVars, enc, prm, fwd, win, rest>>

\* no placeholder in the prompt: the embeddings go on as they are
NoPlaceholder ==
    /\ spl.pc = "splice"
    /\ \A p \in DOMAIN spl.input_ids : spl.input_ids[p] # audio_token_id
    /\ spl' = [spl EXCEPT !.pc = "spliced"]
    /\ UNCHANGED <<serverVars, enc, prm, fwd, win, rest>>

NextSplice == EmbedTokens \/ SpliceAudio \/ NoPlaceholder

SpecSplice == InitSplice /\ [][NextSplice]_vars

\* how many placeholders the prompt holds up to and including position p
PlaceholderRank(ids, p) ==
    Cardinality({q \in 1..p : ids[q] = audio_token_id})

(***************************************************************************)
(* C19. After the splice, the embedding at the k-th placeholder position   *)
(* is the k-th audio vector for every k below min(number of placeholders,  *)
(* number of audio vectors); every other position, later placeholders      *)
(* included, keeps the embedding of its token.                             *)
(***************************************************************************)
C19_SpliceReplacesPlaceholdersInOrder ==
    spl.pc = "spliced" =>
        /\ DOMAIN spl.inputs_embeds = DOMAIN spl.input_ids
        /\ \A p \in DOMAIN spl.input_ids :
              LET k == PlaceholderRank(spl.input_ids, p) IN
              spl.inputs_embeds[p] =
                  IF spl.input_ids[p] = audio_token_id /\ k <= spl.n_audio
                  THEN [token |-> 0, audio |-> {k - 1}]
                  ELSE [token |-> spl.input_ids[p], audio |-> {}]

\* three placeholders and two audio rows: the third placeholder is kept
C19_Witness ==
    /\ spl.pc = "spliced" /\ spl.n_audio = 2
    /\ spl.input_ids = <<151669, audio_token_id, audio_token_id, audio_token_id>>
    /\ spl.inputs_embeds[2] = audio_row(0)
    /\ spl.inputs_embeds[3] = audio_row(1)
    /\ spl.inputs_embeds[4] = embed_tokens(audio_token_id)

(***************************************************************************)
(* The forward passes of one generation (Qwen3ASRModel.__call__ under      *)
(* generate_step, and under a caller that hands it input_features).        *)
(***************************************************************************)
MaxNewTokens == 2

\* <|im_end|>, the first of eos_token_ids
eos_token == 151645

None == [given |-> FALSE, value |-> <<>>]
Some(v) == [given |-> TRUE, value |-> v]

NoCache == [kind |-> "None", offset |-> 0]
KVCache(offset) == [kind |-> "KVCache", offset |-> offset]

\* the guard without its test of the cache offset
splice_guard_features_only(input_features, cache) == input_features.given

\* input_features is not None and (cache is None or cache[0].offset == 0)
splice_guard(input_features, cache) ==
    /\ input_features.given
    /\ (cache.kind = "None" \/ cache.offset = 0)

\* Qwen3ASRModel.__call__ up to the call of the text decoder: what the decoder
\* is given, and whether the audio tower ran
Qwen3ASRModel(input_ids, input_embeddings, input_features, cache) ==
    LET inputs_embeds ==
            IF input_embeddings.given THEN input_embeddings.value
            ELSE [p \in DOMAIN input_ids |-> embed_tokens(input_ids[p])]
        encode == splice_guard(input_features, cache)
    IN [audio_tower |-> encode,
        inputs_embeds |->
            IF /\ encode
               /\ \E p \in DOMAIN input_ids : input_ids[p] = audio_token_id
               /\ input_features.value > 0
            THEN splice(inputs_embeds, input_ids, input_features.value)
            ELSE inputs_embeds]

\* "generate_step": transcribe_audio's call, the spliced prompt embeddings and
\* no input_features; "input_features": a caller that passes the audio itself
Callers == {"generate_step", "input_features"}

InitForward ==
    /\ ServerIdle
    /\ fwd \in {[pc |-> "prefill", caller |-> c, prompt |-> ids, n_audio |-> n,
                 cache |-> k, y |-> 0, passes |-> <<>>] :
                   c \in Callers, ids \in Prompts \ {<<>>},
                   n \in 0..MaxAudioRows, k \in {NoCache, KVCache(0)}}
    /\ enc = Idle /\ prm = Idle /\ spl = Idle /\ win = Idle /\ RestIdle

\* input_embeddings as transcribe_audio hands them to generate_step
PromptEmbeddings ==
    splice([p \in DOMAIN fwd.prompt |-> embed_tokens(fwd.prompt[p])],
           fwd.prompt, fwd.n_audio)

\* one call of the model on the tokens first..last of the prompt (embeds) or
\* on one sampled token (no embeds); the cache moves on by the tokens seen
Pass(kind, input_ids, input_embeddings, sampled) ==
    LET input_features ==
            IF fwd.caller = "input_features" THEN Some(fwd.n_audio) ELSE None
        r == Qwen3ASRModel(input_ids, input_embeddings, input_features, fwd.cache)
    IN [kind |-> kind, input_ids |-> input_ids,
        input_embeddings |-> input_embeddings,
        input_features |-> input_features.given,
        offset |-> fwd.cache.offset,
        audio_tower |-> r.audio_tower,
        inputs_embeds |-> r.inputs_embeds,
        sampled |-> sampled]

Advance(cache, n) ==
    IF cache.kind = "KVCache" THEN KVCache(cache.offset + n) ELSE cache

Slice(first, last) ==
    IF fwd.caller = "generate_step"
    THEN Some(SubSeq(PromptEmbeddings, first, last))
    ELSE None

\* generate_step: the prompt but its last token is run through the model
Prefill ==
    /\ fwd.pc = "prefill" /\ Len(fwd.prompt) > 1
    /\ LET n == Len(fwd.prompt) - 1 IN
       fwd' = [fwd EXCEPT
                 !.pc = "step",
                 !.passes = Append(@, Pass("prefill", SubSeq(fwd.prompt, 1, n),
                                           Slice(1, n), 0)),
                 !.cache = Advance(@, n)]
    /\ UNCHANGED <<serverVars, enc, prm, spl, win, rest>>

\* a prompt of one token has nothing to prefill
PrefillNothing ==
    /\ fwd.pc = "prefill" /\ Len(fwd.prompt) = 1
    /\ fwd' = [fwd EXCEPT !.pc = "step"]
    /\ UNCHANGED <<serverVars, enc, prm, spl, win, rest>>

\* generate_step: the first step, on what is left of the prompt
FirstStep ==
    /\ fwd.pc = "step"
    /\ \E token \in TextTokens \cup {eos_token} :
         LET n == Len(fwd.prompt) IN
         fwd' = [fwd EXCEPT
                   !.pc = "decode",
                   !.passes = Append(@, Pass("step", SubSeq(fwd.prompt, n, n),
                                             Slice(n, n), token)),
                   !.cache = Advance(@, 1),
                   !.y = token]
    /\ UNCHANGED <<serverVars, enc, prm, spl, win, rest>>

\* the next step, on the token sampled last
DecodeStep ==
    /\ fwd.pc = "decode"
    /\ fwd.y # eos_token
    /\ Len(SelectSeq(fwd.passes, LAMBDA q : q.kind # "prefill")) < MaxNewTokens
    /\ \E token \in TextTokens \cup {eos_token} :
         fwd' = [fwd EXCEPT
                   !.passes = Append(@, Pass("decode", <<fwd.y>>, None, token)),
                   !.cache = Advance(@, 1),
                   !.y = token]
    /\ UNCHANGED <<serverVars, enc, prm, spl, win, rest>>

\* if token in eos_token_ids: break
EndOfText ==
    /\ fwd.pc = "decode"
    /\ fwd.y = eos_token
    /\ fwd' = [fwd EXCEPT !.pc = "done"]
    /\ UNCHANGED <<serverVars, enc, prm, spl, win, rest>>

NextForward ==
    Prefill \/ PrefillNothing \/ FirstStep \/ DecodeStep \/ EndOfText

SpecForward == InitForward /\ [][NextForward]_vars

\* the embeddings a pass was called on, before any splice
GivenEmbeddings(q) ==
    IF q.input_embeddings.given THEN q.input_embeddings.value
    ELSE [p \in DOMAIN q.input_ids |->
             [token |-> q.input_ids[p], audio |-> {}]]

(***************************************************************************)
(* C20. Audio embeddings are spliced only on a forward pass whose cache is *)
(* absent or at offset 0.  On a pass whose cache offset is above 0 the     *)
(* audio encoder is not run and the input embeddings reach the decoder     *)
(* unmodified; every decode step after the first is called on the newest   *)
(* token alone and the decoder gets that token's embedding.                *)
(***************************************************************************)
C20_SpliceOnlyAtOffsetZero ==
    \A i \in DOMAIN fwd.passes :
        LET q == fwd.passes[i] IN
        /\ (q.audio_tower \/ q.inputs_embeds # GivenEmbeddings(q))
              => (q.input_features /\ (fwd.cache.kind = "None" \/ q.offset = 0))
        /\ q.offset > 0
              => (~q.audio_tower /\ q.inputs_embeds = GivenEmbeddings(q))
        /\ q.kind = "decode"
              => /\ i > 1
                 /\ q.input_ids = <<fwd.passes[i - 1].sampled>>
                 /\ q.inputs_embeds
                      = <<[token |-> fwd.passes[i - 1].sampled, audio |-> {}]>>
        /\ (fwd.cache.kind = "KVCache" /\ i > 1)
              => q.offset = fwd.passes[i - 1].offset
                              + Len(fwd.passes[i - 1].input_ids)

\* input_features on every pass: spliced at offset 0, and the placeholder that
\* ends the prompt goes to the decoder as it is at offset 3
C20_Witness ==
    /\ fwd.caller = "input_features" /\ fwd.cache.kind = "KVCache"
    /\ fwd.n_audio = 3
    /\ fwd.prompt = <<151644, audio_token_id, audio_token_id, audio_token_id>>
    /\ Len(fwd.passes) = 3
    /\ fwd.passes[1].audio_tower /\ fwd.passes[1].inputs_embeds[2] = audio_row(0)
    /\ fwd.passes[2].offset = 3 /\ ~fwd.passes[2].audio_tower
    /\ fwd.passes[2].inputs_embeds = <<embed_tokens(audio_token_id)>>
    /\ fwd.passes[3].kind = "decode" /\ fwd.passes[3].offset = 4

(***************************************************************************)
(* The generation loop of transcribe_audio and the KV caches it runs on.   *)
(*                                                                         *)
(* generate_step is given no prompt_cache, so it asks the model for one    *)
(* (make_cache), runs the prompt through the model, and then yields one    *)
(* token per iteration, computing the following token before it yields.    *)
(* A KVCache is an object: an identity and an offset.  A string is a       *)
(* sequence of characters.                                                 *)
(***************************************************************************)
MaxLayers == 2
MaxTokens == 3

eos_token_ids == {151645, 151643}
\* two tokens of the vocabulary that are text: a letter and a blank
LetterToken == 64
BlankToken == 220
Vocab == {LetterToken, BlankToken} \cup eos_token_ids

\* tokenizer.decode([token])
decode(token) ==
    CASE token = LetterToken -> <<"a">>
      [] token = BlankToken -> <<" ">>
      [] token = 151645 -> <<"<|im_end|>">>
      [] OTHER -> <<"<|endoftext|>">>

\* "".join(parts)
RECURSIVE join(_)
join(parts) == IF parts = <<>> THEN <<>> ELSE Head(parts) \o join(Tail(parts))

RECURSIVE lstrip(_)
lstrip(str) ==
    IF str # <<>> /\ Head(str) = " " THEN lstrip(Tail(str)) ELSE str

RECURSIVE rstrip(_)
rstrip(str) ==
    IF str # <<>> /\ str[Len(str)] = " "
    THEN rstrip(SubSeq(str, 1, Len(str) - 1)) ELSE str

\* str.strip()
strip(str) == rstrip(lstrip(str))

\* a make_cache that hands out the caches it made the first time
make_cache_kept(heap, num_hidden_layers) ==
    [i \in 1..num_hidden_layers |-> [id |-> i, offset |-> 0]]

\* [KVCache() for _ in range(num_hidden_layers)]: new objects, offset 0
make_cache(heap, num_hidden_layers) ==
    [i \in 1..num_hidden_layers |-> [id |-> heap + i, offset |-> 0]]

\* TextAttention.__call__: cache.update_and_fetch(keys, values) with keys of
\* L positions moves the layer's offset on by L
update_and_fetch(layer_cache, L) ==
    [layer_cache EXCEPT !.offset = @ + L]

\* TextModel.__call__ on L tokens: every layer is called once with its cache
TextModel(cache, L) == [i \in DOMAIN cache |-> update_and_fetch(cache[i], L)]

Offsets(cache) == [i \in DOMAIN cache |-> cache[i].offset]

CacheIds(cache) == {cache[i].id : i \in DOMAIN cache}

InitGenerate ==
    /\ ServerIdle
    /\ gen \in {[pc |-> "call", num_hidden_layers |-> l, served |-> 0,
                 heap |-> 0, retired |-> {}, cache |-> <<>>, offsets |-> <<>>,
                 max_tokens |-> 0, y |-> 0, n |-> 0, yielded |-> <<>>,
                 parts |-> <<>>, text |-> <<>>] : l \in 1..MaxLayers}
    /\ enc = Idle /\ prm = Idle /\ spl = Idle /\ fwd = Idle /\ win = Idle
    /\ lay = Idle /\ qnt = Idle /\ san = Idle /\ shl = Idle

notGen == <<serverVars, enc, prm, spl, fwd, win, lay, qnt, san, shl>>

\* transcribe_audio calls generate_step, which makes the prompt cache
MakePromptCache ==
    /\ gen.pc \in {"call", "returned"}
    /\ gen.served < MaxLines
    /\ \E max_tokens \in 0..MaxTokens :
         LET cache == make_cache(gen.heap, gen.num_hidden_layers) IN
         gen' = [gen EXCEPT
                   !.pc = "prefill",
                   !.heap = @ + gen.num_hidden_layers,
                   !.cache = cache,
                   !.offsets = <<Offsets(cache)>>,
                   !.max_tokens = max_tokens,
                   !.y = 0, !.n = 0, !.yielded = <<>>, !.parts = <<>>,
                   !.text = <<>>]
    /\ UNCHANGED notGen

\* the prompt but its last token goes through the model
PrefillPrompt ==
    /\ gen.pc = "prefill"
    /\ \E prompt_len \in 2..MaxPromptLen :
         LET cache == TextModel(gen.cache, prompt_len - 1) IN
         gen' = [gen EXCEPT !.pc = "first",
                            !.cache = cache,
                            !.offsets = Append(@, Offsets(cache))]
    /\ UNCHANGED notGen

\* a prompt of one token: nothing to run ahead of the first step
PrefillSkipped ==
    /\ gen.pc = "prefill"
    /\ gen' = [gen EXCEPT !.pc = "first"]
    /\ UNCHANGED notGen

\* the first step: the last prompt token goes in, the first token comes out
FirstToken ==
    /\ gen.pc = "first"
    /\ \E token \in Vocab :
         LET cache == TextModel(gen.cache, 1) IN
         gen' = [gen EXCEPT !.pc = "loop",
                            !.cache = cache,
                            !.offsets = Append(@, Offsets(cache)),
                            !.y = token]
    /\ UNCHANGED notGen

\* the loop body that appends whatever it is given and never breaks
YieldToken_NoBreak ==
    /\ gen.pc = "loop"
    /\ gen.n # gen.max_tokens
    /\ \E next_y \in Vocab :
         LET cache == TextModel(gen.cache, 1) IN
         gen' = [gen EXCEPT !.cache = cache,
                            !.offsets = Append(@, Offsets(cache)),
                            !.yielded = Append(@, gen.y),
                            !.parts = Append(@, decode(gen.y)),
                            !.y = next_y,
                            !.n = @ + 1]
    /\ UNCHANGED notGen

\* one iteration: the next token is computed, y is yielded, decoded, appended
YieldToken ==
    /\ gen.pc = "loop"
    /\ gen.n # gen.max_tokens
    /\ gen.y \notin eos_token_ids
    /\ \E next_y \in Vocab :
         LET cache == TextModel(gen.cache, 1) IN
         gen' = [gen EXCEPT !.cache = cache,
                            !.offsets = Append(@, Offsets(cache)),
                            !.yielded = Append(@, gen.y),
                            !.parts = Append(@, decode(gen.y)),
                            !.y = next_y,
                            !.n = @ + 1]
    /\ UNCHANGED notGen

\* one iteration: the next token is computed, y is yielded and is an
\* end-of-sequence token: break
YieldEos ==
    /\ gen.pc = "loop"
    /\ gen.n # gen.max_tokens
    /\ gen.y \in eos_token_ids
    /\ LET cache == TextModel(gen.cache, 1) IN
       gen' = [gen EXCEPT !.pc = "join",
                          !.cache = cache,
                          !.offsets = Append(@, Offsets(cache)),
                          !.yielded = Append(@, gen.y)]
    /\ UNCHANGED notGen

\* n == max_tokens: generate_step is exhausted and the for loop ends
BudgetSpent ==
    /\ gen.pc = "loop"
    /\ gen.n = gen.max_tokens
    /\ gen' = [gen EXCEPT !.pc = "join"]
    /\ UNCHANGED notGen

\* return "".join(parts).strip(); the caches go with the generator
ReturnText ==
    /\ gen.pc = "join"
    /\ gen' = [gen EXCEPT !.pc = "returned",
                          !.text = strip(join(gen.parts)),
                          !.served = @ + 1,
                          !.retired = @ \cup CacheIds(gen.cache)]
    /\ UNCHANGED notGen

NextGenerate ==
    \/ MakePromptCache \/ PrefillPrompt \/ PrefillSkipped \/ FirstToken
    \/ YieldToken \/ YieldEos \/ BudgetSpent \/ ReturnText

SpecGenerate == InitGenerate /\ [][NextGenerate]_vars

\* a call of transcribe_audio goes on running until it returns
SpecGenerateFair == SpecGenerate /\ WF_vars(NextGenerate)

Generating == gen.pc \in {"prefill", "first", "loop", "join"}

(***************************************************************************)
(* C21. Each call of transcribe_audio decodes with a list of KV caches     *)
(* made for it, one per decoder layer and starting at offset 0, that no    *)
(* other call uses; from one forward pass of a generation to the next      *)
(* every layer's offset strictly increases.                                *)
(***************************************************************************)
C21_FreshCachesGrowingOffsets ==
    Generating =>
        /\ Len(gen.cache) = gen.num_hidden_layers
        /\ Cardinality(CacheIds(gen.cache)) = gen.num_hidden_layers
        /\ CacheIds(gen.cache) \cap gen.retired = {}
        /\ gen.offsets[1] = [i \in 1..gen.num_hidden_layers |-> 0]
        /\ gen.offsets[Len(gen.offsets)] = Offsets(gen.cache)
        /\ \A k \in 1..(Len(gen.offsets) - 1) :
              \A i \in 1..gen.num_hidden_layers :
                  gen.offsets[k][i] < gen.offsets[k + 1][i]

\* a second call, three passes in, on caches the first call never had
C21_Witness ==
    /\ gen.pc = "loop" /\ gen.served = 1
    /\ gen.num_hidden_layers = 2
    /\ gen.retired = {1, 2} /\ CacheIds(gen.cache) = {3, 4}
    /\ gen.offsets = <<<<0, 0>>, <<3, 3>>, <<4, 4>>, <<5, 5>>>>

(***************************************************************************)
(* C22. The generation loop terminates.  It takes at most max_tokens       *)
(* tokens and stops at the first token in {151645, 151643}; the text       *)
(* returned is the decoded tokens before that token, joined in order and   *)
(* stripped of surrounding whitespace, without the end-of-sequence token.  *)
(***************************************************************************)
\* the tokens of a sequence that come before its first end-of-sequence token
RECURSIVE BeforeEos(_)
BeforeEos(tokens) ==
    IF tokens = <<>> \/ Head(tokens) \in eos_token_ids THEN <<>>
    ELSE <<Head(tokens)>> \o BeforeEos(Tail(tokens))

IsText(str) == \A i \in DOMAIN str : str[i] \in {"a", " "}

C22_StopsAtFirstEos ==
    /\ Len(gen.yielded) <= gen.max_tokens
    /\ Len(gen.parts) <= gen.max_tokens
    /\ \A i \in 1..(Len(gen.yielded) - 1) : gen.yielded[i] \notin eos_token_ids
    /\ gen.parts = [i \in 1..Len(BeforeEos(gen.yielded)) |->
                       decode(BeforeEos(gen.yielded)[i])]
    /\ gen.pc = "returned" =>
          /\ IsText(gen.text)
          /\ gen.text = <<>> \/
                (gen.text[1] # " " /\ gen.text[Len(gen.text)] # " ")
          /\ \E i, j \in 0..Len(gen.parts) :
                /\ join(gen.parts)
                     = [k \in 1..i |-> " "] \o gen.text \o [k \in 1..j |-> " "]

C22_GenerationTerminates ==
    /\ []C22_StopsAtFirstEos
    /\ Generating ~> (gen.pc = "returned")

\* blank, letter, then <|im_end|>: the text is the letter
C22_Witness ==
    /\ gen.pc = "returned" /\ gen.max_tokens = 3
    /\ gen.yielded = <<BlankToken, LetterToken, 151645>>
    /\ gen.text = <<"a">>

(***************************************************************************)
(* Cutting a recording into chunks (_compute_chunk_layout,                 *)
(* _slice_feature_chunks, _pad_chunks) for any chunk size.  The frames of  *)
(* a recording are numbered 1..L along the time axis; a frame of padding   *)
(* is 0.                                                                   *)
(***************************************************************************)
MaxLayoutLen == 12
MaxChunkSize == 6

Padding == 0

\* feat[:, pos : pos + clen]
slice(feat, pos, clen) == SubSeq(feat, pos + 1, Min2(pos + clen, Len(feat)))

\* _slice_feature_chunks moving on by one frame less than it has cut
_slice_feature_chunks_overlapping(feat, feat_len, num_chunks, chunk_size) ==
    [j \in 1..num_chunks |-> slice(feat, (j - 1) * (chunk_size - 1), chunk_size)]

\* the chunks of one recording: pos starts at 0 and moves on by each clen
_slice_feature_chunks(feat, feat_len, num_chunks, chunk_size) ==
    LET remainder == feat_len % chunk_size
        clen(j) == IF j - 1 < num_chunks - 1 \/ remainder = 0
                   THEN chunk_size ELSE remainder
        RECURSIVE pos(_)
        pos(j) == IF j = 1 THEN 0 ELSE pos(j - 1) + clen(j - 1)
    IN [j \in 1..num_chunks |-> slice(feat, pos(j), clen(j))]

\* mx.pad(chunk, [(0, 0), (0, max_chunk_len - clen)]) where clen is shorter
_pad_chunks(chunks, chunk_lengths) ==
    LET max_chunk_len == Max(chunk_lengths) IN
    [i \in DOMAIN chunks |->
        IF chunk_lengths[i] < max_chunk_len
        THEN chunks[i] \o [k \in 1..(max_chunk_len - chunk_lengths[i]) |-> Padding]
        ELSE chunks[i]]

notLay == <<serverVars, enc, prm, spl, fwd, win, gen, qnt, san, shl>>

InitLayout ==
    /\ ServerIdle
    /\ lay \in {[pc |-> "layout", feat_len |-> l, chunk_size |-> c,
                 chunk_lengths |-> <<>>, chunks |-> <<>>, padded |-> <<>>] :
                   l \in 1..MaxLayoutLen, c \in 1..MaxChunkSize}
    /\ enc = Idle /\ prm = Idle /\ spl = Idle /\ fwd = Idle /\ win = Idle
    /\ gen = Idle /\ qnt = Idle /\ san = Idle /\ shl = Idle

ComputeChunkLayout ==
    /\ lay.pc = "layout"
    /\ lay' = [lay EXCEPT
                 !.pc = "slice",
                 !.chunk_lengths =
                     _compute_chunk_layout(lay.feat_len, lay.chunk_size)]
    /\ UNCHANGED notLay

SliceFeatureChunks ==
    /\ lay.pc = "slice"
    /\ lay' = [lay EXCEPT
                 !.pc = "pad",
                 !.chunks =
                     _slice_feature_chunks([f \in 1..lay.feat_len |-> f],
                                           lay.feat_len,
                                           Len(lay.chunk_lengths),
                                           lay.chunk_size)]
    /\ UNCHANGED notLay

PadChunks ==
    /\ lay.pc = "pad"
    /\ lay' = [lay EXCEPT !.pc = "padded",
                          !.padded = _pad_chunks(lay.chunks, lay.chunk_lengths)]
    /\ UNCHANGED notLay

NextLayout == ComputeChunkLayout \/ SliceFeatureChunks \/ PadChunks

SpecLayout == InitLayout /\ [][NextLayout]_vars

(***************************************************************************)
(* C23. For every feature length L >= 1 and chunk size c the layout has    *)
(* ceil(L/c) chunks, each of 1..c frames, all of c frames but possibly the *)
(* last, which has L mod c when that is not 0; the lengths sum to L; the   *)
(* slices are contiguous, do not overlap and have exactly those lengths;   *)
(* no frame of padding is counted in a length.                             *)
(***************************************************************************)
C23_ChunkLayout ==
    lay.pc = "padded" =>
        LET L == lay.feat_len
            c == lay.chunk_size
            N == Len(lay.chunk_lengths)
            len == lay.chunk_lengths
            first(i) == Sum(SubSeq(len, 1, i - 1))
        IN /\ (N - 1) * c < L /\ L <= N * c
           /\ \A i \in 1..N : 1 <= len[i] /\ len[i] <= c
           /\ \A i \in 1..(N - 1) : len[i] = c
           /\ len[N] = IF L % c # 0 THEN L % c ELSE c
           /\ Sum(len) = L
           /\ Len(lay.chunks) = N /\ Len(lay.padded) = N
           /\ \A i \in 1..N :
                 /\ lay.chunks[i] = [k \in 1..len[i] |-> first(i) + k]
                 /\ Len(lay.padded[i]) = len[1]
                 /\ \A k \in 1..len[1] :
                       lay.padded[i][k] =
                           IF k <= len[i] THEN first(i) + k ELSE Padding

\* eleven frames in chunks of four: the last chunk has three and one of padding
C23_Witness ==
    /\ lay.pc = "padded" /\ lay.feat_len = 11 /\ lay.chunk_size = 4
    /\ lay.chunk_lengths = <<4, 4, 3>>
    /\ lay.chunks = <<<<1, 2, 3, 4>>, <<5, 6, 7, 8>>, <<9, 10, 11>>>>
    /\ lay.padded[3] = <<9, 10, 11, 0>>

(***************************************************************************)
(* Quantizing the model before its weights are loaded (load_model).        *)
(*                                                                         *)
(* The model is built from the defaults of AudioEncoderConfig and          *)
(* TextConfig (no key of config.json passes the co_varnames filter), so    *)
(* its modules and their shapes are fixed.  A module is its dotted path,   *)
(* cut at the dots, whether its class has to_quantized (Linear, Embedding) *)
(* and the shape of its weight, rows by columns.                           *)
(***************************************************************************)
Module(path, to_quantized, rows, cols) ==
    [p |-> path, to_quantized |-> to_quantized, rows |-> rows, cols |-> cols]

\* one leaf module of each kind and shape the model has
LeafModules ==
    {Module(<<"audio_tower", "conv2d1">>, FALSE, 480, 9),
     Module(<<"audio_tower", "conv_out">>, TRUE, 1024, 7680),
     Module(<<"audio_tower", "layers", "0", "self_attn", "q_proj">>, TRUE, 1024, 1024),
     Module(<<"audio_tower", "proj2">>, TRUE, 2048, 1024),
     Module(<<"model", "embed_tokens">>, TRUE, 151936, 2048),
     Module(<<"model", "layers", "0", "self_attn", "q_proj">>, TRUE, 2048, 2048),
     Module(<<"model", "layers", "0", "self_attn", "k_proj">>, TRUE, 1024, 2048),
     Module(<<"model", "layers", "0", "mlp", "down_proj">>, TRUE, 2048, 6144),
     Module(<<"model", "layers", "0", "self_attn", "q_norm">>, FALSE, 1, 128),
     Module(<<"model", "norm">>, FALSE, 1, 2048)}

\* m.weight.size
size(m) == m.rows * m.cols

\* the group sizes a config.json may name; mx.quantize takes 32, 64 and 128
GroupSizes == {32, 64, 96, 128}

\* class_predicate that does not look at the path
class_predicate_any_path(path, m, weights) ==
    /\ m.to_quantized
    /\ size(m) % 64 = 0
    /\ path \in weights

\* class_predicate(p, m); weights holds the paths p with a key p.scales
class_predicate(path, m, weights) ==
    IF ~m.to_quantized THEN FALSE
    ELSE IF size(m) % 64 # 0 THEN FALSE
    ELSE IF path[1] = "audio_tower" THEN FALSE
    ELSE path \in weights

\* m.to_quantized(group_size, bits) raises: mx.quantize wants a group size it
\* knows and a last dimension that is a multiple of it
to_quantized_raises(m, group_size) ==
    \/ group_size \notin {32, 64, 128}
    \/ m.cols % group_size # 0

notQnt == <<serverVars, enc, prm, spl, fwd, win, gen, lay, san, shl>>

InitQuantize ==
    /\ ServerIdle
    /\ qnt \in {[pc |-> "config", quantization |-> q, group_size |-> g,
                 weights |-> w, quantized |-> {}] :
                   q \in BOOLEAN, g \in GroupSizes,
                   w \in SUBSET {m.p : m \in {x \in LeafModules : x.to_quantized}}}
    /\ enc = Idle /\ prm = Idle /\ spl = Idle /\ fwd = Idle /\ win = Idle
    /\ gen = Idle /\ lay = Idle /\ san = Idle /\ shl = Idle

\* the leaf modules class_predicate picks
Picked ==
    {m \in LeafModules : class_predicate(m.p, m, qnt.weights)}

\* config.json has no "quantization": nn.quantize is not called
NotQuantized ==
    /\ qnt.pc = "config" /\ ~qnt.quantization
    /\ qnt' = [qnt EXCEPT !.pc = "loaded"]
    /\ UNCHANGED notQnt

\* nn.quantize replaces every picked module by its quantized form
Quantize ==
    /\ qnt.pc = "config" /\ qnt.quantization
    /\ \A m \in Picked : ~to_quantized_raises(m, qnt.group_size)
    /\ qnt' = [qnt EXCEPT !.pc = "loaded", !.quantized = {m.p : m \in Picked}]
    /\ UNCHANGED notQnt

\* a picked module cannot be quantized: ValueError, the model is left as built
QuantizeRaise ==
    /\ qnt.pc = "config" /\ qnt.quantization
    /\ \E m \in Picked : to_quantized_raises(m, qnt.group_size)
    /\ qnt' = [qnt EXCEPT !.pc = "raised"]
    /\ UNCHANGED notQnt

NextQuantize == NotQuantized \/ Quantize \/ QuantizeRaise

SpecQuantize == InitQuantize /\ [][NextQuantize]_vars

(***************************************************************************)
(* C24. With quantization parameters present, a module is quantized only   *)
(* if it is outside the audio tower and the element count of its weight is *)
(* a multiple of the configured group_size: every module of the audio      *)
(* tower, and every module whose element count is not such a multiple,     *)
(* stays unquantized.                                                      *)
(***************************************************************************)
C24_QuantizedOnlyIfEligible ==
    \A m \in LeafModules :
        /\ m.p \in qnt.quantized
              => /\ qnt.quantization
                 /\ m.p[1] # "audio_tower"
                 /\ (m.rows * m.cols) % qnt.group_size = 0
        /\ (m.p[1] = "audio_tower" \/ (m.rows * m.cols) % qnt.group_size # 0)
              => m.p \notin qnt.quantized

\* scales for a decoder projection and for an encoder projection: only the
\* decoder's is quantized
C24_Witness ==
    /\ qnt.pc = "loaded" /\ qnt.group_size = 128
    /\ qnt.weights = {<<"audio_tower", "proj2">>,
                      <<"model", "layers", "0", "self_attn", "k_proj">>}
    /\ qnt.quantized = {<<"model", "layers", "0", "self_attn", "k_proj">>}

(***************************************************************************)
(* The output head: the configuration flag, the model built from it, and   *)
(* the weight keys of the checkpoint after Qwen3ASRModel.sanitize.  A key  *)
(* is its dotted name cut at the dots; a tensor is the layout it is in.    *)
(***************************************************************************)
CheckpointKeys ==
    {<<"thinker", "model", "embed_tokens", "weight">>,
     <<"thinker", "lm_head", "weight">>,
     <<"thinker", "audio_tower", "conv2d1", "weight">>,
     <<"model", "embed_tokens", "weight">>,
     <<"lm_head", "weight">>,
     <<"audio_tower", "conv2d1", "weight">>}

\* what mx.load gives for a key: a convolution kernel is 4-dimensional, in
\* the layout of the framework that wrote the file
Tensor(k) ==
    IF "conv2d1" \in {k[i] : i \in DOMAIN k}
    THEN (IF k[1] = "thinker" THEN "OIHW" ELSE "OHWI")
    ELSE "2d"

\* the text_config dicts of a config.json, as far as the flag goes
TextConfigs ==
    {<<>>, [tie_word_embeddings |-> TRUE], [tie_word_embeddings |-> FALSE]}

\* TextConfig.__init__.__code__.co_varnames of __init__(self, **kwargs)
co_varnames == {"self", "kwargs"}

\* ModelConfig: {k: v for k, v in text_config.items() if k in co_varnames}
filter_config(text_config) ==
    [k \in DOMAIN text_config \cap co_varnames |-> text_config[k]]

\* TextConfig(**kwargs).tie_word_embeddings
tie_word_embeddings(kwargs) ==
    IF "tie_word_embeddings" \in DOMAIN kwargs
    THEN kwargs["tie_word_embeddings"] ELSE TRUE

\* Qwen3ASRModel.sanitize
sanitize(weights) ==
    LET is_formatted == \A k \in DOMAIN weights : k[1] # "thinker"
        strip_prefix(k) == IF k[1] = "thinker" THEN Tail(k) ELSE k
        kept == {k \in DOMAIN weights : strip_prefix(k) # <<"lm_head", "weight">>}
        value(k) == IF ~is_formatted /\ weights[k] = "OIHW" THEN "OHWI"
                    ELSE weights[k]
    IN [n \in {strip_prefix(k) : k \in kept} |->
          value(CHOOSE k \in kept : strip_prefix(k) = n)]

notSan == <<serverVars, enc, prm, spl, fwd, win, gen, lay, qnt, shl>>

InitSanitize ==
    /\ ServerIdle
    /\ san \in {[pc |-> "config", text_config |-> c,
                 checkpoint |-> [k \in ks |-> Tensor(k)],
                 tied |-> TRUE, lm_head |-> "None", weights |-> <<>>] :
                   c \in TextConfigs, ks \in SUBSET CheckpointKeys}
    /\ enc = Idle /\ prm = Idle /\ spl = Idle /\ fwd = Idle /\ win = Idle
    /\ gen = Idle /\ lay = Idle /\ qnt = Idle /\ shl = Idle

\* config = ModelConfig(...); model = Qwen3ASRModel(config): lm_head is None
\* when the configuration object says tied, a new Linear otherwise
BuildModel ==
    /\ san.pc = "config"
    /\ LET tied == tie_word_embeddings(filter_config(san.text_config)) IN
       san' = [san EXCEPT !.pc = "built",
                          !.tied = tied,
                          !.lm_head = IF tied THEN "None" ELSE "initialized"]
    /\ UNCHANGED notSan

\* weights = Qwen3ASRModel.sanitize(weights)
Sanitize ==
    /\ san.pc = "built"
    /\ san' = [san EXCEPT !.pc = "sanitized",
                          !.weights = sanitize(san.checkpoint)]
    /\ UNCHANGED notSan

\* model.load_weights(list(weights.items()), strict=False)
LoadWeights ==
    /\ san.pc = "sanitized"
    /\ san' = [san EXCEPT
                 !.pc = "loaded",
                 !.lm_head =
                     IF @ # "None" /\ <<"lm_head", "weight">> \in DOMAIN san.weights
                     THEN "loaded" ELSE @]
    /\ UNCHANGED notSan

NextSanitize == BuildModel \/ Sanitize \/ LoadWeights

SpecSanitize == InitSanitize /\ [][NextSanitize]_vars

\* the checkpoint has a weight for the output head
HasHead ==
    \E k \in DOMAIN san.checkpoint :
        k \in {<<"lm_head", "weight">>, <<"thinker", "lm_head", "weight">>}

\* config.json says the embeddings are not tied
Untied ==
    /\ "tie_word_embeddings" \in DOMAIN san.text_config
    /\ ~san.text_config["tie_word_embeddings"]

(***************************************************************************)
(* C25. Key normalization drops lm_head.weight when the embeddings are     *)
(* tied; when the configuration says they are not tied it keeps the key,   *)
(* and the separate output projection the flag selects is loaded from the  *)
(* weight files.                                                           *)
(***************************************************************************)
C25_HeadKeptWhenUntied ==
    san.pc = "loaded" =>
        /\ ~Untied => <<"lm_head", "weight">> \notin DOMAIN san.weights
        /\ (Untied /\ HasHead)
              => /\ <<"lm_head", "weight">> \in DOMAIN san.weights
                 /\ san.lm_head = "loaded"

(***************************************************************************)
(* The desktop shell (legacy/python/main.py).                              *)
(*                                                                         *)
(* Three kinds of thread share the WhisperDictation object: the key        *)
(* listener (on_press, on_release), the main thread, on which the 50 ms    *)
(* timer runs check_pending_action and with it start_recording and         *)
(* stop_recording, and the threads stop_recording starts on                *)
(* _transcribe_and_paste; _record_audio appends chunks meanwhile.  A chunk *)
(* of audio is the number of the recording it was captured for.            *)
(***************************************************************************)
MaxRecordings == 2
MaxChunks == 1

\* keyboard.Key.cmd, .shift, .space
Hotkey == {"cmd", "shift", "space"}

notShl == <<serverVars, enc, prm, spl, fwd, win, gen, lay, qnt, san>>

InitShell ==
    /\ ServerIdle
    /\ shl = [pressed_keys |-> {}, pending_action |-> "None",
              is_recording |-> FALSE, locked |-> FALSE,
              audio_frames |-> <<>>, audio_stream |-> FALSE,
              recordings |-> 0, threads |-> <<>>]
    /\ enc = Idle /\ prm = Idle /\ spl = Idle /\ fwd = Idle /\ win = Idle
    /\ gen = Idle /\ lay = Idle /\ qnt = Idle /\ san = Idle

\* the listener thread: a key of the hotkey goes down
on_press ==
    \E key \in Hotkey \ shl.pressed_keys :
        LET pressed == shl.pressed_keys \cup {key} IN
        /\ shl' = [shl EXCEPT
                     !.pressed_keys = pressed,
                     !.pending_action =
                         IF /\ Hotkey \subseteq pressed
                            /\ ~shl.is_recording
                            /\ @ # "start"
                         THEN "start" ELSE @]
        /\ UNCHANGED notShl

\* the listener thread: a key goes up
on_release ==
    \E key \in shl.pressed_keys :
        /\ shl' = [shl EXCEPT
                     !.pressed_keys = @ \ {key},
                     !.pending_action =
                         IF shl.is_recording /\ key \in Hotkey
                         THEN "stop" ELSE @]
        /\ UNCHANGED notShl

\* start_recording; ok: pyaudio opened the input stream
start_recording(ok) ==
    IF shl.is_recording THEN shl
    ELSE IF shl.locked THEN shl
    ELSE IF ok
    THEN [shl EXCEPT !.is_recording = TRUE, !.audio_frames = <<>>,
                     !.audio_stream = TRUE, !.recordings = @ + 1]
    ELSE [shl EXCEPT !.audio_frames = <<>>]

\* a thread on _transcribe_and_paste as threading.Thread(...).start() leaves it
Started ==
    [pc |-> "acquire", recording |-> shl.recordings,
     stopped |-> shl.audio_frames, wav |-> <<>>]

\* stop_recording
stop_recording ==
    IF ~shl.is_recording THEN shl
    ELSE [shl EXCEPT !.is_recording = FALSE, !.audio_stream = FALSE,
                     !.threads = Append(@, Started)]

\* the timer finds pending_action == 'start'
TimerStart ==
    /\ shl.pending_action = "start"
    /\ shl.recordings < MaxRecordings
    /\ shl' = [start_recording(TRUE) EXCEPT !.pending_action = "None"]
    /\ UNCHANGED notShl

\* the timer finds 'start' and pyaudio cannot open the stream
TimerStartError ==
    /\ shl.pending_action = "start"
    /\ ~shl.is_recording /\ ~shl.locked
    /\ shl' = [start_recording(FALSE) EXCEPT !.pending_action = "None"]
    /\ UNCHANGED notShl

\* the timer finds pending_action == 'stop'
TimerStop ==
    /\ shl.pending_action = "stop"
    /\ shl' = [stop_recording EXCEPT !.pending_action = "None"]
    /\ UNCHANGED notShl

\* _record_audio: one more chunk of the recording under way
RecordChunk ==
    /\ shl.is_recording /\ shl.audio_stream
    /\ Len(shl.audio_frames) < MaxChunks
    /\ shl' = [shl EXCEPT !.audio_frames = Append(@, shl.recordings)]
    /\ UNCHANGED notShl

\* acquire(blocking=False) on a lock that gives itself to every caller
acquire_always(locked) == TRUE

\* transcribe_lock.acquire(blocking=False)
acquire(locked) == ~locked

\* _transcribe_and_paste: the lock is taken or the call returns
TryAcquire(t) ==
    /\ shl.threads[t].pc = "acquire"
    /\ shl' = IF acquire(shl.locked)
              THEN [shl EXCEPT !.locked = TRUE, !.threads[t].pc = "frames"]
              ELSE [shl EXCEPT !.threads[t].pc = "ignored"]
    /\ UNCHANGED notShl

\* if not self.audio_frames: return (through finally)
CheckFrames(t) ==
    /\ shl.threads[t].pc = "frames"
    /\ shl' = [shl EXCEPT
                 !.threads[t].pc =
                     IF shl.audio_frames = <<>> THEN "release" ELSE "wav"]
    /\ UNCHANGED notShl

\* wf.writeframes(b''.join(self.audio_frames))
WriteWav(t) ==
    /\ shl.threads[t].pc = "wav"
    /\ shl' = [shl EXCEPT !.threads[t].pc = "whisper",
                          !.threads[t].wav = shl.audio_frames]
    /\ UNCHANGED notShl

\* whisper-cli runs; its text is pasted, or it fails or times out
RunWhisper(t) ==
    /\ shl.threads[t].pc = "whisper"
    /\ shl' = [shl EXCEPT !.threads[t].pc = "release"]
    /\ UNCHANGED notShl

\* finally: self.transcribe_lock.release()
Release(t) ==
    /\ shl.threads[t].pc = "release"
    /\ shl' = [shl EXCEPT !.locked = FALSE, !.threads[t].pc = "done"]
    /\ UNCHANGED notShl

TranscribeAndPaste ==
    \E t \in DOMAIN shl.threads :
        TryAcquire(t) \/ CheckFrames(t) \/ WriteWav(t) \/ RunWhisper(t)
            \/ Release(t)

NextShell ==
    \/ on_press \/ on_release
    \/ TimerStart \/ TimerStartError \/ TimerStop
    \/ RecordChunk
    \/ TranscribeAndPaste

SpecShell == InitShell /\ [][NextShell]_vars

\* the threads inside the try block of _transcribe_and_paste
InBody == {t \in DOMAIN shl.threads :
              shl.threads[t].pc \in {"frames", "wav", "whisper", "release"}}

\* the threads whose transcription is pending or in progress
Unfinished == {t \in DOMAIN shl.threads :
                  shl.threads[t].pc \notin {"ignored", "done"}}

(***************************************************************************)
(* C26. Between stop_recording of a recording and the end of its           *)
(* transcription no new recording starts and audio_frames is not reset:    *)
(* the frames transcribed are those captured for the recording that was    *)
(* stopped.                                                                *)
(***************************************************************************)
C26_FramesKeptUntilTranscribed ==
    \A t \in DOMAIN shl.threads :
        /\ t \in Unfinished
              => /\ ~shl.is_recording
                 /\ shl.recordings = shl.threads[t].recording
                 /\ shl.audio_frames = shl.threads[t].stopped
        /\ shl.threads[t].pc \in {"whisper", "release", "done"}
              => shl.threads[t].wav = shl.threads[t].stopped

(***************************************************************************)
(* C27. Once the hotkey has been pressed, releasing its keys stops the     *)
(* recording: the shell is never recording with every key of the hotkey    *)
(* up and no action pending for the timer, a state only a further key      *)
(* event leads out of.                                                     *)
(***************************************************************************)
C27_ReleaseStopsRecording ==
    ~(/\ shl.is_recording
      /\ shl.pressed_keys = {}
      /\ shl.pending_action = "None")

(***************************************************************************)
(* C28. At most one thread is in the transcription body of                 *)
(* _transcribe_and_paste at any time; a call that finds transcribe_lock    *)
(* held returns without transcribing.                                      *)
(***************************************************************************)
C28_OneTranscriptionAtATime ==
    /\ Cardinality(InBody) <= 1
    /\ shl.locked <=> InBody # {}
    /\ \A t \in DOMAIN shl.threads :
          shl.threads[t].pc = "ignored" => shl.threads[t].wav = <<>>

\* two threads were started; the second found the lock held and returned
\* while the first was running whisper-cli
C28_Witness ==
    /\ Len(shl.threads) = 2
    /\ shl.threads[1].pc = "whisper"
    /\ shl.threads[2].pc = "ignored"

====
